---- MODULE Spec2Model ----
(***************************************************************************)
(* Authentication and session core of the real-estate chat backend:        *)
(* backend/auth_service.py (AuthService), the routes of                    *)
(* backend/auth_routes.py that wrap it, and the tables of                  *)
(* backend/models.py it reads and writes.                                  *)
(*                                                                         *)
(* The committed database is one record, db.  Every service method is an   *)
(* operator from (db, clock, arguments) to the record                      *)
(* [db |-> committed database afterwards, resp |-> what the caller sees],  *)
(* written commit by commit as in the source: an exception leaves the      *)
(* database as of the last commit before it (get_db closes the SQLAlchemy  *)
(* session, which rolls the open transaction back).                        *)
(*                                                                         *)
(* Time: the clock counts seconds, the resolution of the iat/exp claims of *)
(* a JWT.  The lifetimes keep their order (access <= reset < refresh) but   *)
(* are scaled down to two or three clock steps.                            *)
(***************************************************************************)
EXTENDS Integers, Sequences, FiniteSets, TLC

\* ------------------------------------------------------------------ bounds
MaxTime == 3
MaxUsers == 2
MaxSessions == 2
MaxResets == 2
MaxAudit == 1
MaxAuditSolo == 3
MaxFaults == 1
MaxReqs == 2

MaxConcUsers == 1
MaxConcTime == 2
MaxClock == 5
MaxPwLen == 8
MaxCsrfUsers == 2
TicksPerSecond == 2

\* ------------------------------------------------- program constants (scaled)
access_token_expire_minutes == 2
reset_token_expire_hours == 2
refresh_token_expire_days == 3
min_length == 8
requests_per_minute == 2
requests_per_hour == 3
minute_window == 2
hour_window == 4
max_age == 1

secret_key == "SECRET_KEY"
algorithm == "HS256"

NoValue == [none |-> TRUE]

\* ------------------------------------------------------------ input alphabets
PwStrongA == <<"A", "b", "c", "d", "e", "f", "1", "!">>
PwStrongB == <<"Q", "w", "e", "r", "t", "y", "2", "#">>
PwWeak == <<"d", "e", "m", "o", "1", "2", "3">>
RegPasswords == {PwStrongA, PwWeak}
LoginPasswords == {PwStrongA, PwStrongB}
NewPasswords == {PwStrongB, PwWeak}

ValidEmails == {"a@x.com", "b@x.com"}
Emails == ValidEmails \cup {"not-an-email"}
NoUsername == "<absent>"
Usernames == {NoUsername}
Identifiers == ValidEmails
SeededRoles == {"client", "agent", "employee", "admin"}
RoleInputs == {"client", "superuser"}

\* ------------------------------------------------------------------- state
VARIABLES
    now,    \* datetime.utcnow(), in clock steps
    db,     \* committed tables users, sessions, resets, audit; and rnd, the number of
            \* values drawn so far from secrets.token_urlsafe / bcrypt.gensalt
    faults, \* storage faults (commits that raised) injected so far
    last,   \* the last call that changed the database: [op, arg, at, resp]
    reqs,   \* requests in flight, each between two of its database round trips
    rate_limit_storage, \* the module-level dict of the rate limiter: key -> timestamps
    clock,  \* time.time(), in clock steps
    granted,            \* every timestamp is_allowed ever recorded, per key (history)
    verdict, \* the last rate limiter call: [op, key, at, result]
    call    \* a call of a function that reads no state but its arguments:
            \* [fn, args, result]

vars == <<now, db, faults, last, reqs, rate_limit_storage, clock, granted, verdict, call>>

\* the variables of the rate limiter
limiter == <<rate_limit_storage, clock, granted, verdict>>

\* the variables of the authentication core
core == <<now, db, faults, last, reqs>>

\* ------------------------------------------------------------- sequences
\* query(...).first(): the lowest-id row that satisfies the filter, 0 if none
First(hits) ==
    IF hits = {} THEN 0 ELSE CHOOSE i \in hits : \A j \in hits : i <= j

\* ------------------------------------------------------------- responses
\* errors: the list a weak-password rejection carries next to its message
Ret(v) == [exc |-> "none", status |-> 200, detail |-> "", errors |-> <<>>, value |-> v]

Raise(s, d) ==
    [exc |-> "HTTPException", status |-> s, detail |-> d, errors |-> <<>>, value |-> NoValue]

Crash(kind) ==
    [exc |-> kind, status |-> 500, detail |-> kind, errors |-> <<>>, value |-> NoValue]

Out(d, r) == [db |-> d, resp |-> r]

\* --------------------------------------------------------- Credential Store
UpperChars == {"A", "Q"}
LowerChars == {"b", "c", "d", "e", "f", "m", "o", "r", "t", "w", "y"}
DigitChars == {"1", "2", "3"}
special_chars == {"!", "@", "#", "$", "%", "^", "&", "*", "(", ")", "_", "+", "-",
                  "=", "[", "]", "{", "}", "|", ";", ":", ",", ".", "<", ">", "?"}

ErrLength == "Password must be at least 8 characters long"
ErrUpper == "Password must contain at least one uppercase letter"
ErrLower == "Password must contain at least one lowercase letter"
ErrDigit == "Password must contain at least one number"
ErrSpecial == "Password must contain at least one special character"

\* variant: a validation that stops at the first rule the password breaks
validate_password_strength_FirstOnly(password) ==
    LET has(S) == \E i \in DOMAIN password : password[i] \in S
        errors == IF Len(password) < min_length THEN <<ErrLength>>
                  ELSE IF ~has(UpperChars) THEN <<ErrUpper>>
                  ELSE IF ~has(LowerChars) THEN <<ErrLower>>
                  ELSE IF ~has(DigitChars) THEN <<ErrDigit>>
                  ELSE IF ~has(special_chars) THEN <<ErrSpecial>>
                  ELSE <<>>
    IN [is_valid |-> Len(errors) = 0, errors |-> errors]

validate_password_strength(password) ==
    LET has(S) == \E i \in DOMAIN password : password[i] \in S
        e1 == IF Len(password) < min_length THEN <<ErrLength>> ELSE <<>>
        e2 == IF has(UpperChars) THEN <<>> ELSE <<ErrUpper>>
        e3 == IF has(LowerChars) THEN <<>> ELSE <<ErrLower>>
        e4 == IF has(DigitChars) THEN <<>> ELSE <<ErrDigit>>
        e5 == IF has(special_chars) THEN <<>> ELSE <<ErrSpecial>>
        errors == e1 \o e2 \o e3 \o e4 \o e5
    IN [is_valid |-> Len(errors) = 0, errors |-> errors]

\* bcrypt: the hash carries its salt; checkpw re-hashes with that salt
hash_password(password, salt) == [salt |-> salt, digest |-> <<salt, password>>]

verify_password(password, hashed_password) ==
    hashed_password.digest = <<hashed_password.salt, password>>

\* HTTPException(400, detail = {"message": ..., "errors": ...})
RaiseWeak(password) ==
    [Raise(400, "Password does not meet requirements")
        EXCEPT !.errors = validate_password_strength(password).errors]

validate_email_format(email) == email \in ValidEmails

\* ------------------------------------------------------------- Audit Log
\* one commit of its own; fail = the commit raises
\* variant: an audit call that commits nothing
log_audit_event_Silent(d, action, user_id, fail) ==
    IF fail
    THEN Out(d, Crash("OperationalError"))
    ELSE Out(d, Ret(NoValue))

\* variant: an audit call that keeps only the newest entry
log_audit_event_Replace(d, action, user_id, fail) ==
    IF fail
    THEN Out(d, Crash("OperationalError"))
    ELSE Out([d EXCEPT !.audit = <<[user_id |-> user_id, action |-> action]>>],
             Ret(NoValue))

log_audit_event(d, action, user_id, fail) ==
    IF fail
    THEN Out(d, Crash("OperationalError"))
    ELSE Out([d EXCEPT !.audit = Append(@, [user_id |-> user_id, action |-> action])],
             Ret(NoValue))

\* ------------------------------------------------------------ Token Service
\* jwt.encode / jwt.decode with HS256: the signature binds key and payload
jwt_encode(payload, key) == [alg |-> algorithm, payload |-> payload, sig |-> <<key, payload>>]

SignatureOK(token, key) == token.alg = algorithm /\ token.sig = <<key, token.payload>>

AccessPayload(user_id, t) ==
    [user_id |-> user_id, type |-> "access", exp |-> t + access_token_expire_minutes, iat |-> t]

RefreshPayload(user_id, t, jti) ==
    [user_id |-> user_id, type |-> "refresh", exp |-> t + refresh_token_expire_days,
     iat |-> t, jti |-> jti]

\* the unique constraints of user_sessions (session_token, refresh_token)
SessionUniqueOK(sessions, row) ==
    \A i \in DOMAIN sessions :
        /\ sessions[i].session_token # row.session_token
        /\ sessions[i].refresh_token # row.refresh_token

generate_tokens(d0, t, user_id) ==
    LET jti == d0.rnd + 1
        d == [d0 EXCEPT !.rnd = jti]
        access_token == jwt_encode(AccessPayload(user_id, t), secret_key)
        refresh_token == jwt_encode(RefreshPayload(user_id, t, jti), secret_key)
        session == [id |-> Len(d.sessions) + 1,
                    user_id |-> user_id,
                    session_token |-> access_token,
                    refresh_token |-> refresh_token,
                    is_active |-> TRUE,
                    expires_at |-> t + refresh_token_expire_days,
                    last_accessed |-> t]
    IN IF ~SessionUniqueOK(d.sessions, session)
       THEN Out(d0, Crash("IntegrityError"))
       ELSE Out([d EXCEPT !.sessions = Append(@, session)],
                Ret([access_token |-> access_token,
                     refresh_token |-> refresh_token,
                     token_type |-> "bearer",
                     expires_in |-> access_token_expire_minutes * 60,
                     expires_at |-> t + access_token_expire_minutes]))

\* the session row an access token is checked against
\* variant: a verify_token that does not look at the row's is_active flag
LiveSessionOf_AnyRow(d, t, token) ==
    First({k \in DOMAIN d.sessions :
            LET s == d.sessions[k] IN s.session_token = token /\ s.expires_at > t})

LiveSessionOf(d, t, token) ==
    First({k \in DOMAIN d.sessions :
            LET s == d.sessions[k] IN s.session_token = token /\ s.is_active /\ s.expires_at > t})

\* variant: a verify_token that does not compare the type claim
verify_token_AnyType(d, t, token, token_type) ==
    IF ~SignatureOK(token, secret_key)
    THEN Out(d, Raise(401, "Invalid token"))
    ELSE IF token.payload.exp <= t
    THEN Out(d, Raise(401, "Token has expired"))
    ELSE IF token_type = "access"
    THEN LET i == LiveSessionOf(d, t, token)
         IN IF i = 0
            THEN Out(d, Raise(401, "Token not found or expired"))
            ELSE Out([d EXCEPT !.sessions[i].last_accessed = t], Ret(token.payload))
    ELSE Out(d, Ret(token.payload))

\* variant: a verify_token that trusts the signature and never consults the
\* session table
verify_token_NoSessionCheck(d, t, token, token_type) ==
    IF ~SignatureOK(token, secret_key)
    THEN Out(d, Raise(401, "Invalid token"))
    ELSE IF token.payload.exp <= t
    THEN Out(d, Raise(401, "Token has expired"))
    ELSE IF token.payload.type # token_type
    THEN Out(d, Raise(401, "Invalid token type"))
    ELSE Out(d, Ret(token.payload))

\* variant: a verify_token that also pushes the row's expiry forward
verify_token_Sliding(d, t, token, token_type) ==
    IF ~SignatureOK(token, secret_key)
    THEN Out(d, Raise(401, "Invalid token"))
    ELSE IF token.payload.exp <= t
    THEN Out(d, Raise(401, "Token has expired"))
    ELSE IF token.payload.type # token_type
    THEN Out(d, Raise(401, "Invalid token type"))
    ELSE IF token_type = "access"
    THEN LET i == LiveSessionOf(d, t, token)
         IN IF i = 0
            THEN Out(d, Raise(401, "Token not found or expired"))
            ELSE Out([d EXCEPT !.sessions[i].last_accessed = t,
                               !.sessions[i].expires_at = t + refresh_token_expire_days],
                     Ret(token.payload))
    ELSE Out(d, Ret(token.payload))

verify_token(d, t, token, token_type) ==
    IF ~SignatureOK(token, secret_key)
    THEN Out(d, Raise(401, "Invalid token"))
    ELSE IF token.payload.exp <= t
    THEN Out(d, Raise(401, "Token has expired"))
    ELSE IF token.payload.type # token_type
    THEN Out(d, Raise(401, "Invalid token type"))
    ELSE IF token_type = "access"
    THEN LET i == LiveSessionOf(d, t, token)
         IN IF i = 0
            THEN Out(d, Raise(401, "Token not found or expired"))
            ELSE Out([d EXCEPT !.sessions[i].last_accessed = t], Ret(token.payload))
    ELSE Out(d, Ret(token.payload))

\* ---------------------------------------------------------------- users
UserById(d, user_id) == First({k \in DOMAIN d.users : LET u == d.users[k] IN u.id = user_id})

\* variant: a registration that only looks for the email among the users
register_user_EmailOnly(d, t, email, username_in, password, role_name, fail) ==
    LET salt == d.rnd + 1
        username == IF username_in = NoUsername THEN email ELSE username_in
        existing == First({k \in DOMAIN d.users : LET u == d.users[k] IN u.email = email})
        user == [id |-> Len(d.users) + 1,
                 email |-> email,
                 username |-> username,
                 password_hash |-> hash_password(password, salt),
                 is_active |-> TRUE,
                 roles |-> {role_name},
                 last_login |-> 0]
        d1 == [d EXCEPT !.users = Append(@, user), !.rnd = salt]
        a == log_audit_event(d1, "user_registered", user.id, fail)
    IN IF ~validate_email_format(email)
       THEN Out(d, Raise(400, "Invalid email format"))
       ELSE IF ~validate_password_strength(password).is_valid
       THEN Out(d, RaiseWeak(password))
       ELSE IF existing # 0
       THEN Out(d, Raise(400, "User with this email or username already exists"))
       ELSE IF role_name \notin SeededRoles
       THEN Out(d, Raise(400, "Role not found"))
       ELSE IF a.resp.exc # "none"
       THEN a
       ELSE Out(a.db, Ret(user.id))

register_user(d, t, email, username_in, password, role_name, fail) ==
    LET salt == d.rnd + 1
        username == IF username_in = NoUsername THEN email ELSE username_in
        existing == First({k \in DOMAIN d.users :
                            LET u == d.users[k] IN u.email = email \/ u.username = username})
        user == [id |-> Len(d.users) + 1,
                 email |-> email,
                 username |-> username,
                 password_hash |-> hash_password(password, salt),
                 is_active |-> TRUE,
                 roles |-> {role_name},
                 last_login |-> 0]
        d1 == [d EXCEPT !.users = Append(@, user), !.rnd = salt]
        a == log_audit_event(d1, "user_registered", user.id, fail)
    IN IF ~validate_email_format(email)
       THEN Out(d, Raise(400, "Invalid email format"))
       ELSE IF ~validate_password_strength(password).is_valid
       THEN Out(d, RaiseWeak(password))
       ELSE IF existing # 0
       THEN Out(d, Raise(400, "User with this email or username already exists"))
       ELSE IF role_name \notin SeededRoles
       THEN Out(d, Raise(400, "Role not found"))
       ELSE IF a.resp.exc # "none"
       THEN a
       ELSE Out(a.db, Ret(user.id))

authenticate_user(d, t, email, password, fail) ==
    LET i == First({k \in DOMAIN d.users :
                     LET u == d.users[k] IN (u.email = email \/ u.username = email) /\ u.is_active})
    IN IF i = 0 \/ ~verify_password(password, d.users[i].password_hash)
       THEN LET a == log_audit_event(d, "login_failed", 0, fail)
            IN IF a.resp.exc # "none" THEN a
               ELSE Out(a.db, Raise(401, "Invalid email or password"))
       ELSE LET user == d.users[i]
                d1 == [d EXCEPT !.users[i].last_login = t]
                g == generate_tokens(d1, t, user.id)
                a == log_audit_event(g.db, "login_success", user.id, fail)
            IN IF g.resp.exc # "none" THEN g
               ELSE IF a.resp.exc # "none" THEN a
               ELSE Out(a.db, Ret([user_id |-> user.id, tokens |-> g.resp.value]))

\* refresh_token, first part: verify the token, then look its session row up
RefreshLookup(d, t, token) ==
    LET v == verify_token(d, t, token, "refresh")
        user_id == v.resp.value.user_id
        i == First({k \in DOMAIN d.sessions : LET s == d.sessions[k] IN /\ s.refresh_token = token
                                                                        /\ s.user_id = user_id
                                                                        /\ s.is_active
                                                                        /\ s.expires_at > t})
    IN IF v.resp.exc # "none" THEN v
       ELSE IF i = 0 THEN Out(d, Raise(401, "Refresh token not found or expired"))
       ELSE Out(d, Ret(i))

\* variant: a rotation that leaves the old row as it is
DeactivateRow_Keep(d, i) == d

\* variant: an UPDATE that also switches every other row back on
DeactivateRow_Rekindle(d, i) ==
    [d EXCEPT !.sessions = [k \in DOMAIN @ |-> [@[k] EXCEPT !.is_active = (k # i)]]]

\* session.is_active = False; commit: an UPDATE of the loaded row by primary key
DeactivateRow(d, i) == [d EXCEPT !.sessions[i].is_active = FALSE]

refresh_token(d, t, token) ==
    LET r == RefreshLookup(d, t, token)
    IN IF r.resp.exc # "none" THEN r
       ELSE generate_tokens(DeactivateRow(d, r.resp.value), t, token.payload.user_id)

logout_user(d, t, access_token, fail) ==
    LET v == verify_token(d, t, access_token, "access")
        user_id == v.resp.value.user_id
        i == First({k \in DOMAIN v.db.sessions :
                     LET s == v.db.sessions[k] IN
                     /\ s.session_token = access_token
                     /\ s.user_id = user_id
                     /\ s.is_active})
    IN IF v.resp.exc # "none" THEN v
       ELSE IF i = 0 THEN Out(v.db, Ret(FALSE))
       ELSE LET a == log_audit_event(DeactivateRow(v.db, i), "logout", user_id, fail)
            IN IF a.resp.exc # "none" THEN a ELSE Out(a.db, Ret(TRUE))

get_current_user(d, t, access_token) ==
    LET v == verify_token(d, t, access_token, "access")
        i == First({k \in DOMAIN v.db.users :
                     LET u == v.db.users[k] IN u.id = v.resp.value.user_id /\ u.is_active})
    IN IF v.resp.exc # "none" THEN v
       ELSE IF i = 0 THEN Out(v.db, Raise(401, "User not found"))
       ELSE Out(v.db, Ret(v.db.users[i].id))

\* ------------------------------------------------------ Password Reset Flow
EnumerationSafeMessage ==
    "If an account with this email exists, a password reset link has been sent"

create_password_reset_token(d, t, email, fail) ==
    LET i == First({k \in DOMAIN d.users : LET u == d.users[k] IN u.email = email /\ u.is_active})
        reset_token == [urlsafe |-> d.rnd + 1]
        password_reset == [id |-> Len(d.resets) + 1,
                           user_id |-> d.users[i].id,
                           reset_token |-> reset_token,
                           expires_at |-> t + reset_token_expire_hours,
                           used |-> FALSE]
        d1 == [d EXCEPT !.resets = Append(@, password_reset), !.rnd = @ + 1]
        a == log_audit_event(d1, "password_reset_requested", d.users[i].id, fail)
    IN IF i = 0 THEN Out(d, Raise(200, EnumerationSafeMessage))
       ELSE IF a.resp.exc # "none" THEN a
       ELSE Out(a.db, Ret(reset_token))

\* what FastAPI sends for a response: the status and the JSON body (one key)
HttpResponse(status, key, text) == [status |-> status, body |-> [key |-> key, text |-> text]]

\* the route /auth/forgot-password around create_password_reset_token
forgot_password(d, t, email, fail) ==
    LET c == create_password_reset_token(d, t, email, FALSE)
        a == log_audit_event(c.db, "password_reset_requested", 0, fail)
    IN IF c.resp.exc = "HTTPException"
       THEN Out(c.db, HttpResponse(c.resp.status, "detail", c.resp.detail))
       ELSE IF a.resp.exc # "none"
       THEN Out(a.db, HttpResponse(500, "detail", "Password reset request failed"))
       ELSE Out(a.db, HttpResponse(200, "message", EnumerationSafeMessage))

\* variant: a lookup that does not filter on the expiry
ResetLookup_IgnoreExpiry(d, t, reset_token, new_password) ==
    LET i == First({k \in DOMAIN d.resets :
                     LET r == d.resets[k] IN r.reset_token = reset_token /\ ~r.used})
    IN IF ~validate_password_strength(new_password).is_valid
       THEN Out(d, RaiseWeak(new_password))
       ELSE IF i = 0 THEN Out(d, Raise(400, "Invalid or expired reset token"))
       ELSE Out(d, Ret(i))

\* variant: a lookup that finds the token row first and validates the password after
ResetLookup_TokenFirst(d, t, reset_token, new_password) ==
    LET i == First({k \in DOMAIN d.resets :
                     LET r == d.resets[k] IN
                     /\ r.reset_token = reset_token
                     /\ ~r.used
                     /\ r.expires_at > t})
    IN IF i = 0 THEN Out(d, Raise(400, "Invalid or expired reset token"))
       ELSE IF ~validate_password_strength(new_password).is_valid
       THEN Out(d, RaiseWeak(new_password))
       ELSE Out(d, Ret(i))

\* variant: a lookup that does not filter on the used flag
ResetLookup_IgnoreUsed(d, t, reset_token, new_password) ==
    LET i == First({k \in DOMAIN d.resets : LET r == d.resets[k] IN /\ r.reset_token = reset_token
                                                                    /\ r.expires_at > t})
    IN IF ~validate_password_strength(new_password).is_valid
       THEN Out(d, RaiseWeak(new_password))
       ELSE IF i = 0 THEN Out(d, Raise(400, "Invalid or expired reset token"))
       ELSE Out(d, Ret(i))

\* reset_password, first part: validate the password, then find the token row
ResetLookup(d, t, reset_token, new_password) ==
    LET i == First({k \in DOMAIN d.resets : LET r == d.resets[k] IN /\ r.reset_token = reset_token
                                                                    /\ ~r.used
                                                                    /\ r.expires_at > t})
    IN IF ~validate_password_strength(new_password).is_valid
       THEN Out(d, RaiseWeak(new_password))
       ELSE IF i = 0 THEN Out(d, Raise(400, "Invalid or expired reset token"))
       ELSE Out(d, Ret(i))

\* the UPDATE ... WHERE user_id = :id AND is_active of reset / deactivate
DeactivateSessionsOf(sessions, user_id) ==
    [k \in DOMAIN sessions |->
        IF sessions[k].user_id = user_id /\ sessions[k].is_active
        THEN [sessions[k] EXCEPT !.is_active = FALSE]
        ELSE sessions[k]]

\* the rows the bulk UPDATE of reset_password matches when it executes
ActiveSessionsOf(d, user_id) ==
    {k \in DOMAIN d.sessions : d.sessions[k].user_id = user_id /\ d.sessions[k].is_active}

\* variant: a commit that writes the hash and the used flag but leaves the
\* sessions to a later transaction
ResetApply_KeepSessions(d, i, new_password, matched) ==
    LET u == UserById(d, d.resets[i].user_id)
    IN [d EXCEPT !.users[u].password_hash = hash_password(new_password, d.rnd + 1),
                 !.rnd = @ + 1,
                 !.resets[i].used = TRUE]

\* the commit of reset_password: the new hash and the used flag are written to
\* the loaded rows by primary key, with the rows the bulk UPDATE matched
ResetApply(d, i, new_password, matched) ==
    LET u == UserById(d, d.resets[i].user_id)
    IN [d EXCEPT !.users[u].password_hash = hash_password(new_password, d.rnd + 1),
                 !.rnd = @ + 1,
                 !.resets[i].used = TRUE,
                 !.sessions = [k \in DOMAIN @ |->
                                 IF k \in matched THEN [@[k] EXCEPT !.is_active = FALSE]
                                 ELSE @[k]]]

\* reset_password, second part, run without interruption: one transaction
ResetCommit(d, i, new_password) ==
    ResetApply(d, i, new_password, ActiveSessionsOf(d, d.resets[i].user_id))

\* fault: "none", "commit" (the transaction's commit raises) or "audit"
reset_password(d, t, reset_token, new_password, fault) ==
    LET r == ResetLookup(d, t, reset_token, new_password)
        d1 == ResetCommit(d, r.resp.value, new_password)
        a == log_audit_event(d1, "password_reset_completed",
                             d.resets[r.resp.value].user_id, fault = "audit")
    IN IF r.resp.exc # "none" THEN r
       ELSE IF fault = "commit" THEN Out(d, Crash("OperationalError"))
       ELSE IF a.resp.exc # "none" THEN a
       ELSE Out(a.db, Ret(TRUE))

change_password(d, t, user_id, current_password, new_password, fail) ==
    LET i == UserById(d, user_id)
        d1 == [d EXCEPT !.users[i].password_hash = hash_password(new_password, d.rnd + 1),
                        !.rnd = @ + 1]
        a == log_audit_event(d1, "password_changed", user_id, fail)
    IN IF i = 0 THEN Out(d, Raise(404, "User not found"))
       ELSE IF ~verify_password(current_password, d.users[i].password_hash)
       THEN Out(d, Raise(400, "Current password is incorrect"))
       ELSE IF ~validate_password_strength(new_password).is_valid
       THEN Out(d, RaiseWeak(new_password))
       ELSE IF a.resp.exc # "none" THEN a
       ELSE Out(a.db, Ret(TRUE))

deactivate_user(d, t, user_id, admin_user_id, fail) ==
    LET i == UserById(d, user_id)
        d1 == [d EXCEPT !.users[i].is_active = FALSE,
                        !.sessions = DeactivateSessionsOf(@, user_id)]
        a == log_audit_event(d1, "user_deactivated", admin_user_id, fail)
    IN IF i = 0 THEN Out(d, Ret(FALSE))
       ELSE IF a.resp.exc # "none" THEN a
       ELSE Out(a.db, Ret(TRUE))

\* --------------------------------------------------------- Session Registry
\* variant: a listing that does not look at expires_at
get_user_sessions_IgnoreExpiry(d, t, user_id) ==
    {[id |-> d.sessions[k].id,
      last_accessed |-> d.sessions[k].last_accessed,
      expires_at |-> d.sessions[k].expires_at] :
         k \in {j \in DOMAIN d.sessions : /\ d.sessions[j].user_id = user_id
                                          /\ d.sessions[j].is_active}}

\* the rows get_user_sessions reports, summarised; all() gives no order
get_user_sessions(d, t, user_id) ==
    {[id |-> d.sessions[k].id,
      last_accessed |-> d.sessions[k].last_accessed,
      expires_at |-> d.sessions[k].expires_at] :
         k \in {j \in DOMAIN d.sessions : /\ d.sessions[j].user_id = user_id
                                          /\ d.sessions[j].is_active
                                          /\ d.sessions[j].expires_at > t}}

\* variant: a revocation that does not filter on the owner
revoke_session_AnyOwner(d, t, session_id, user_id, fail) ==
    LET i == First({k \in DOMAIN d.sessions : LET s == d.sessions[k] IN /\ s.id = session_id
                                                                        /\ s.is_active})
        a == log_audit_event(DeactivateRow(d, i), "session_revoked", user_id, fail)
    IN IF i = 0 THEN Out(d, Ret(FALSE))
       ELSE IF a.resp.exc # "none" THEN a
       ELSE Out(a.db, Ret(TRUE))

revoke_session(d, t, session_id, user_id, fail) ==
    LET i == First({k \in DOMAIN d.sessions : LET s == d.sessions[k] IN /\ s.id = session_id
                                                                        /\ s.user_id = user_id
                                                                        /\ s.is_active})
        a == log_audit_event(DeactivateRow(d, i), "session_revoked", user_id, fail)
    IN IF i = 0 THEN Out(d, Ret(FALSE))
       ELSE IF a.resp.exc # "none" THEN a
       ELSE Out(a.db, Ret(TRUE))

NoToken == [none |-> TRUE]

\* variant: a bulk revocation that does not filter on the user
revoke_all_sessions_AnyUser(d, t, user_id, except_current, fail) ==
    LET sessions == {k \in DOMAIN d.sessions :
                        /\ d.sessions[k].is_active
                        /\ (except_current # NoToken
                              => d.sessions[k].session_token # except_current)}
        count == Cardinality(sessions)
        d1 == [d EXCEPT !.sessions = [k \in DOMAIN @ |->
                                        IF k \in sessions
                                        THEN [@[k] EXCEPT !.is_active = FALSE]
                                        ELSE @[k]]]
        a == log_audit_event(d1, "all_sessions_revoked", user_id, fail)
    IN IF a.resp.exc # "none" THEN a ELSE Out(a.db, Ret(count))

revoke_all_sessions(d, t, user_id, except_current, fail) ==
    LET sessions == {k \in DOMAIN d.sessions :
                        /\ d.sessions[k].user_id = user_id
                        /\ d.sessions[k].is_active
                        /\ (except_current # NoToken
                              => d.sessions[k].session_token # except_current)}
        count == Cardinality(sessions)
        d1 == [d EXCEPT !.sessions = [k \in DOMAIN @ |->
                                        IF k \in sessions
                                        THEN [@[k] EXCEPT !.is_active = FALSE]
                                        ELSE @[k]]]
        a == log_audit_event(d1, "all_sessions_revoked", user_id, fail)
    IN IF a.resp.exc # "none" THEN a ELSE Out(a.db, Ret(count))

\* ------------------------------------------------------- tokens a client holds
\* every token the server has handed out, and one signed with another key
IssuedAccess == {db.sessions[i].session_token : i \in DOMAIN db.sessions}

IssuedRefresh == {db.sessions[i].refresh_token : i \in DOMAIN db.sessions}

ForgedToken == jwt_encode(AccessPayload(1, 0), "attacker-key")

Tokens == IssuedAccess \cup IssuedRefresh \cup {ForgedToken}

\* ---------------------------------------------------- roles and permissions
\* a row of the permissions table
Permission(name, resource, action) == [name |-> name, resource |-> resource, action |-> action]

\* the permissions init_roles_and_permissions seeds
permissions_data ==
    { Permission("read_properties", "properties", "read"),
      Permission("create_properties", "properties", "create"),
      Permission("update_properties", "properties", "update"),
      Permission("delete_properties", "properties", "delete"),
      Permission("manage_properties", "properties", "manage"),
      Permission("read_clients", "clients", "read"),
      Permission("create_clients", "clients", "create"),
      Permission("update_clients", "clients", "update"),
      Permission("delete_clients", "clients", "delete"),
      Permission("manage_clients", "clients", "manage"),
      Permission("read_tasks", "tasks", "read"),
      Permission("create_tasks", "tasks", "create"),
      Permission("update_tasks", "tasks", "update"),
      Permission("delete_tasks", "tasks", "delete"),
      Permission("assign_tasks", "tasks", "assign"),
      Permission("read_users", "users", "read"),
      Permission("create_users", "users", "create"),
      Permission("update_users", "users", "update"),
      Permission("delete_users", "users", "delete"),
      Permission("manage_users", "users", "manage"),
      Permission("view_analytics", "analytics", "read"),
      Permission("export_analytics", "analytics", "export"),
      Permission("admin_access", "system", "admin"),
      Permission("system_config", "system", "config"),
      Permission("chat_access", "chat", "read"),
      Permission("chat_history", "chat", "history"),
      Permission("upload_files", "files", "create"),
      Permission("download_files", "files", "read"),
      Permission("delete_files", "files", "delete") }

\* the permission names init_roles_and_permissions gives each seeded role
roles_data(role_name) ==
    IF role_name = "client" THEN
          {"read_properties", "chat_access", "upload_files", "download_files"}
    ELSE IF role_name = "agent" THEN
          {"read_properties", "create_properties", "update_properties", "read_clients",
           "create_clients", "update_clients", "manage_clients", "read_tasks",
           "create_tasks", "update_tasks", "chat_access", "chat_history",
           "view_analytics", "upload_files", "download_files", "delete_files"}
    ELSE IF role_name = "employee" THEN
          {"read_properties", "read_clients", "read_users", "read_tasks", "create_tasks",
           "update_tasks", "chat_access", "chat_history", "view_analytics",
           "upload_files", "download_files"}
    ELSE IF role_name = "admin" THEN
          {"manage_properties", "manage_clients", "manage_users", "read_tasks",
           "create_tasks", "update_tasks", "delete_tasks", "assign_tasks", "chat_access",
           "chat_history", "view_analytics", "export_analytics", "admin_access",
           "system_config", "upload_files", "download_files", "delete_files"}
    ELSE {}

\* role.permissions: the rows of the permissions table linked to the role
RolePermissions(role_name) == {permission \in permissions_data : permission.name \in roles_data(role_name)}

\* f"{permission.action}_{permission.resource}"
PermissionString(permission) == permission.action \o "_" \o permission.resource

\* variant: the permissions' names instead of action_resource
get_user_permissions_ByName(d, user_id) ==
    LET i == UserById(d, user_id)
    IN IF i = 0
       THEN {}
       ELSE UNION {{permission.name : permission \in RolePermissions(role)} : role \in d.users[i].roles}

\* variant: only the permissions every role of the user grants
get_user_permissions_Common(d, user_id) ==
    LET i == UserById(d, user_id)
    IN IF i = 0
       THEN {}
       ELSE {s \in UNION {{PermissionString(permission) : permission \in RolePermissions(role)} :
                               role \in d.users[i].roles} :
                \A role \in d.users[i].roles :
                    \E permission \in RolePermissions(role) : PermissionString(permission) = s}

\* the list the code returns is built from a set; its order is not specified
get_user_permissions(d, user_id) ==
    LET i == UserById(d, user_id)
    IN IF i = 0
       THEN {}
       ELSE UNION {{PermissionString(permission) : permission \in RolePermissions(role)} :
                       role \in d.users[i].roles}

has_permission(d, user_id, permission) == permission \in get_user_permissions(d, user_id)

\* user.roles.append(role): one more row in user_roles
AddRole(d, user_id, role_name) ==
    LET i == UserById(d, user_id)
    IN IF i = 0 THEN d ELSE [d EXCEPT !.users[i].roles = @ \cup {role_name}]

\* ------------------------------------------------------ gates on a request
\* [role.name for role in current_user.roles]
user_roles(d, user_id) == d.users[UserById(d, user_id)].roles

require_permission(d, user_id, permission) ==
    IF ~has_permission(d, user_id, permission)
    THEN Raise(403, "Permission '" \o permission \o "' required")
    ELSE Ret(user_id)

\* variant: a role gate satisfied by any role at all
require_role_AnyRole(d, user_id, role_name) ==
    IF user_roles(d, user_id) = {}
    THEN Raise(403, "Role '" \o role_name \o "' required")
    ELSE Ret(user_id)

require_role(d, user_id, role_name) ==
    IF role_name \notin user_roles(d, user_id)
    THEN Raise(403, "Role '" \o role_name \o "' required")
    ELSE Ret(user_id)

require_admin(d, user_id) == require_role(d, user_id, "admin")

require_agent_or_admin(d, user_id) ==
    IF "agent" \notin user_roles(d, user_id) /\ "admin" \notin user_roles(d, user_id)
    THEN Raise(403, "Agent or Admin role required")
    ELSE Ret(user_id)

\* property_obj.agent_id IS NULL; ids start at 1
NoAgent == 0

\* variant: an agent may edit any property
can_edit_properties_AnyAgent(d, user_id, property_agent_id) ==
    IF "admin" \in user_roles(d, user_id) THEN TRUE
    ELSE IF "agent" \in user_roles(d, user_id) THEN TRUE
    ELSE FALSE

can_edit_properties(d, user_id, property_agent_id) ==
    IF "admin" \in user_roles(d, user_id) THEN TRUE
    ELSE IF "agent" \in user_roles(d, user_id)
    THEN property_agent_id = NoAgent \/ property_agent_id = user_id
    ELSE FALSE

can_delete_properties(d, user_id, property_agent_id) ==
    IF "admin" \in user_roles(d, user_id) THEN TRUE
    ELSE IF "agent" \in user_roles(d, user_id)
    THEN property_agent_id = NoAgent \/ property_agent_id = user_id
    ELSE FALSE

\* ------------------------------------------------------------ CSRF tokens
\* time.time() is a float: the clock of these functions counts steps of
\* 1 / TicksPerSecond seconds
csrf_secret == "CSRF_SECRET"

\* hmac.new(key, message, sha256).hexdigest(): binds key and message
hmac_sha256(key, message) == [key |-> key, message |-> message]

\* str(n): the decimal digits of n, nothing before them
str(n) == [digits |-> n, padded |-> FALSE]

\* int(s): the number the digits spell, whatever precedes them ("007", " 7")
int(s) == s.digits

\* f"{timestamp}.{signature}"
generate_token(user_id, t) ==
    LET timestamp == str(t \div TicksPerSecond)
        message == <<user_id, timestamp>>
    IN [timestamp_str |-> timestamp, signature |-> hmac_sha256(csrf_secret, message)]

\* a token without a "." in it: split raises ValueError
MalformedToken == [malformed |-> TRUE]

\* variant: a validation that does not look at the age of the token
validate_token_NoAge(token, user_id, t) ==
    IF "timestamp_str" \notin DOMAIN token
    THEN FALSE
    ELSE token.signature = hmac_sha256(csrf_secret, <<user_id, token.timestamp_str>>)

validate_token(token, user_id, t) ==
    IF "timestamp_str" \notin DOMAIN token
    THEN FALSE
    ELSE LET timestamp == int(token.timestamp_str)
         IN IF t - timestamp * TicksPerSecond > max_age * TicksPerSecond
            THEN FALSE
            ELSE token.signature = hmac_sha256(csrf_secret, <<user_id, token.timestamp_str>>)

\* ------------------------------------------------------------ Rate Limiter
\* RateLimiter of auth_middleware.py.  The caps and the two windows are scaled
\* down; they keep the relations of the source: the minute window is shorter
\* than the hour window, the minute cap is below the hour cap, and calls at the
\* minute cap in every minute window would exceed the hour cap.
ClientIps == {"10.0.0.1"}

Endpoints == {"auth", "general"}

\* key = f"{identifier}:{endpoint}"
RateKey(identifier, endpoint) == identifier \o ":" \o endpoint

RateKeys == {RateKey(identifier, endpoint) : identifier \in ClientIps, endpoint \in Endpoints}

\* [timestamp for timestamp in rate_limit_storage[key] if now - timestamp < 3600]
KeepLastHour(timestamps, t) == SelectSeq(timestamps, LAMBDA x : t - x < hour_window)

\* variant: a minute count over everything stored, without the window
minute_requests_NoWindow(timestamps, t) ==
    Len(timestamps)

\* len([timestamp for timestamp in rate_limit_storage[key] if timestamp > minute_ago])
minute_requests(timestamps, t) ==
    Len(SelectSeq(timestamps, LAMBDA x : x > t - minute_window))

\* variant: a check that records the call whether or not it allows it
is_allowed_AlwaysRecord(storage, t, identifier, endpoint) ==
    LET key == RateKey(identifier, endpoint)
        kept == KeepLastHour(storage[key], t)
        hour_requests == Len(kept)
    IN IF minute_requests(kept, t) >= requests_per_minute \/ hour_requests >= requests_per_hour
       THEN [storage |-> [storage EXCEPT ![key] = Append(kept, t)], result |-> FALSE]
       ELSE [storage |-> [storage EXCEPT ![key] = Append(kept, t)], result |-> TRUE]

\* variant: a check without the hour cap
is_allowed_NoHourCap(storage, t, identifier, endpoint) ==
    LET key == RateKey(identifier, endpoint)
        kept == KeepLastHour(storage[key], t)
    IN IF minute_requests(kept, t) >= requests_per_minute
       THEN [storage |-> [storage EXCEPT ![key] = kept], result |-> FALSE]
       ELSE [storage |-> [storage EXCEPT ![key] = Append(kept, t)], result |-> TRUE]

is_allowed(storage, t, identifier, endpoint) ==
    LET key == RateKey(identifier, endpoint)
        kept == KeepLastHour(storage[key], t)
        hour_requests == Len(kept)
    IN IF minute_requests(kept, t) >= requests_per_minute \/ hour_requests >= requests_per_hour
       THEN [storage |-> [storage EXCEPT ![key] = kept], result |-> FALSE]
       ELSE [storage |-> [storage EXCEPT ![key] = Append(kept, t)], result |-> TRUE]

Max0(n) == IF n < 0 THEN 0 ELSE n

get_limits_info(storage, t, identifier, endpoint) ==
    LET key == RateKey(identifier, endpoint)
        kept == KeepLastHour(storage[key], t)
    IN [storage |-> [storage EXCEPT ![key] = kept],
        result |-> [requests_this_minute |-> minute_requests(kept, t),
                    requests_this_hour |-> Len(kept),
                    minute_limit |-> requests_per_minute,
                    hour_limit |-> requests_per_hour,
                    minute_remaining |-> Max0(requests_per_minute - minute_requests(kept, t)),
                    hour_remaining |-> Max0(requests_per_hour - Len(kept))]]

\* ------------------------------------------------------------ AuthMiddleware
\* the endpoints with the strict limit
auth_endpoints ==
    {"/auth/login", "/auth/register", "/auth/forgot-password", "/auth/reset-password"}

NoException == [exc |-> "none", status_code |-> 0, detail |-> NoValue]

\* raise HTTPException(status_code = 429, detail = {message, rate_limit_info})
TooManyRequests(message, rate_info) ==
    [exc |-> "HTTPException", status_code |-> 429,
     detail |-> [message |-> message, rate_limit_info |-> rate_info]]

apply_rate_limiting(storage, t, client_ip, path) ==
    LET endpoint == IF path \in auth_endpoints THEN "auth" ELSE "general"
        message == IF path \in auth_endpoints THEN "Too many authentication attempts"
                   ELSE "Rate limit exceeded"
        a == is_allowed(storage, t, client_ip, endpoint)
        info == get_limits_info(a.storage, t, client_ip, endpoint)
    IN IF a.result
       THEN [storage |-> a.storage, raised |-> NoException]
       ELSE [storage |-> info.storage, raised |-> TooManyRequests(message, info.result)]

\* JSONResponse(status_code, content)
JSONResponse(status_code, content) ==
    [status_code |-> status_code, content |-> content, security_headers |-> FALSE]

\* AuthMiddleware.__call__: try: apply_rate_limiting, call_next, security
\* headers; except Exception: the 500 response
AuthMiddleware_call(storage, t, client_ip, path, handler) ==
    LET r == apply_rate_limiting(storage, t, client_ip, path)
    IN IF r.raised.exc # "none"
       THEN [storage |-> r.storage, call_next |-> FALSE,
             response |-> JSONResponse(500, [detail |-> "Internal server error"])]
       ELSE IF handler.raises
       THEN [storage |-> r.storage, call_next |-> TRUE,
             response |-> JSONResponse(500, [detail |-> "Internal server error"])]
       ELSE [storage |-> r.storage, call_next |-> TRUE,
             response |-> [handler.response EXCEPT !.security_headers = TRUE]]

\* --------------------------------------------------------------- the state
Idle == [pc |-> "idle"]

NoCall == [fn |-> "none", args |-> NoValue, result |-> NoValue]

\* the state after construction, but for the call under study
Constructed ==
    /\ now = 0
    /\ db = [users |-> <<>>, sessions |-> <<>>, resets |-> <<>>, audit |-> <<>>, rnd |-> 0]
    /\ faults = 0
    /\ last = [op |-> "init", arg |-> NoValue, at |-> 0, resp |-> Ret(NoValue)]
    /\ reqs = [r \in 1..MaxReqs |-> Idle]
    /\ rate_limit_storage = [key \in RateKeys |-> <<>>]
    /\ clock = 0
    /\ granted = [key \in RateKeys |-> <<>>]
    /\ verdict = [op |-> "init", key |-> "", at |-> 0, result |-> NoValue]

Init ==
    /\ Constructed
    /\ call = NoCall

\* a storage fault (a commit that raises) surfaced in this response
Faulted(resp) ==
    /\ resp.status = 500
    /\ ("detail" \in DOMAIN resp => resp.detail # "IntegrityError")

\* the tables stay within the bounds of the model
Bounded(d) ==
    /\ Len(d.users) <= MaxUsers
    /\ Len(d.sessions) <= MaxSessions
    /\ Len(d.resets) <= MaxResets
    /\ Len(SelectSeq(d.audit, LAMBDA e : /\ e.action # "user_registered"
                                          /\ ~(e.action = "password_reset_requested" /\ e.user_id = 0)))
          <= (IF Len(d.users) <= 1 THEN MaxAuditSolo ELSE MaxAudit)

\* a call that leaves the database as it was is a stuttering step: what it
\* answers is read off its operator; last is the last call that changed the database
Done(op, arg, out) ==
    /\ faults < MaxFaults
    /\ Bounded(out.db)
    /\ out.db # db
    /\ db' = out.db
    /\ last' = [op |-> op, arg |-> arg, at |-> now, resp |-> out.resp]
    /\ faults' = IF Faulted(out.resp) THEN faults + 1 ELSE faults
    /\ UNCHANGED <<now, reqs, limiter, call>>

FailChoices == BOOLEAN

FaultChoices == {"none", "commit", "audit"}

UserIds == {db.users[i].id : i \in DOMAIN db.users}

\* an id no user row carries
UnknownId == Len(db.users) + 1

SessionIds == {db.sessions[i].id : i \in DOMAIN db.sessions}

ResetTokens == {db.resets[i].reset_token : i \in DOMAIN db.resets} \cup {[urlsafe |-> 0]}

Tick ==
    /\ faults < MaxFaults
    /\ now < MaxTime
    /\ now' = now + 1
    /\ UNCHANGED <<db, faults, last, reqs, limiter, call>>

RegisterUser ==
    \E email \in Emails, username \in Usernames, password \in RegPasswords,
          role_name \in RoleInputs, fail \in FailChoices :
          Done("register_user", email,
               register_user(db, now, email, username, password, role_name, fail))

AuthenticateUser ==
    \E email \in Identifiers, password \in LoginPasswords, fail \in FailChoices :
          Done("authenticate_user", email, authenticate_user(db, now, email, password, fail))

RefreshToken ==
    \E token \in Tokens :
          Done("refresh_token", token, refresh_token(db, now, token))

LogoutUser ==
    \E token \in Tokens, fail \in FailChoices :
          Done("logout_user", token, logout_user(db, now, token, fail))

GetCurrentUser ==
    \E token \in Tokens :
          Done("get_current_user", token, get_current_user(db, now, token))

ForgotPassword ==
    \E email \in ValidEmails, fail \in FailChoices :
          Done("forgot_password", email, forgot_password(db, now, email, fail))

ResetPassword ==
    \E reset_token \in ResetTokens, new_password \in NewPasswords, fault \in FaultChoices :
          Done("reset_password", [token |-> reset_token, new_password |-> new_password],
               reset_password(db, now, reset_token, new_password, fault))

ChangePassword ==
    \E user_id \in UserIds \cup {UnknownId}, current_password \in LoginPasswords,
          new_password \in NewPasswords, fail \in FailChoices :
          Done("change_password", user_id,
               change_password(db, now, user_id, current_password, new_password, fail))

DeactivateUser ==
    \E user_id \in UserIds \cup {UnknownId}, admin_user_id \in UserIds, fail \in FailChoices :
          Done("deactivate_user", user_id,
               deactivate_user(db, now, user_id, admin_user_id, fail))

RevokeSession ==
    \E session_id \in SessionIds, user_id \in UserIds, fail \in FailChoices :
          Done("revoke_session", [session_id |-> session_id, user_id |-> user_id],
               revoke_session(db, now, session_id, user_id, fail))

RevokeAllSessions ==
    \E user_id \in UserIds, except_current \in IssuedAccess \cup {NoToken},
          fail \in FailChoices :
          Done("revoke_all_sessions", [user_id |-> user_id, except_current |-> except_current],
               revoke_all_sessions(db, now, user_id, except_current, fail))

\* ------------------------------------------------- requests that interleave
\* Each request has its own SQLAlchemy session (get_db); between two of its
\* statements another request may run.  READ COMMITTED: a statement sees what
\* was committed when it executes, an UPDATE of a loaded row is by primary key.
Finish(r, kind, arg, resp) ==
    reqs' = [reqs EXCEPT ![r] = [pc |-> "done", kind |-> kind, arg |-> arg, resp |-> resp]]

RefreshBegin(r) ==
    /\ faults < MaxFaults
    /\ reqs[r].pc = "idle"
    /\ \E token \in IssuedRefresh :
          LET l == RefreshLookup(db, now, token)
          IN /\ l.resp.exc = "none"
             /\ reqs' = [reqs EXCEPT ![r] = [pc |-> "refresh_deactivate", arg |-> token,
                                               row |-> l.resp.value]]
    /\ UNCHANGED <<now, db, faults, last, limiter, call>>

RefreshDeactivate(r) ==
    /\ reqs[r].pc = "refresh_deactivate"
    /\ db' = DeactivateRow(db, reqs[r].row)
    /\ reqs' = [reqs EXCEPT ![r].pc = "refresh_issue"]
    /\ UNCHANGED <<now, faults, last, limiter, call>>

RefreshIssue(r) ==
    /\ reqs[r].pc = "refresh_issue"
    /\ LET out == generate_tokens(db, now, reqs[r].arg.payload.user_id)
       IN /\ db' = out.db
          /\ Finish(r, "refresh_token", reqs[r].arg, out.resp)
    /\ UNCHANGED <<now, faults, last, limiter, call>>

ResetBegin(r) ==
    /\ faults < MaxFaults
    /\ reqs[r].pc = "idle"
    /\ \E reset_token \in ResetTokens, new_password \in LoginPasswords :
          LET l == ResetLookup(db, now, reset_token, new_password)
              arg == [token |-> reset_token, new_password |-> new_password]
          IN /\ l.resp.exc = "none"
             /\ reqs' = [reqs EXCEPT ![r] = [pc |-> "reset_update", arg |-> arg,
                                               row |-> l.resp.value]]
    /\ UNCHANGED <<now, db, faults, last, limiter, call>>

ResetUpdate(r) ==
    /\ reqs[r].pc = "reset_update"
    /\ reqs' = [reqs EXCEPT ![r] =
                  [pc |-> "reset_commit", arg |-> reqs[r].arg, row |-> reqs[r].row,
                   matched |-> ActiveSessionsOf(db, db.resets[reqs[r].row].user_id)]]
    /\ UNCHANGED <<now, db, faults, last, limiter, call>>

ResetCommitStep(r) ==
    /\ reqs[r].pc = "reset_commit"
    /\ db' = ResetApply(db, reqs[r].row, reqs[r].arg.new_password, reqs[r].matched)
    /\ reqs' = [reqs EXCEPT ![r] = [pc |-> "reset_audit", arg |-> reqs[r].arg,
                                    row |-> reqs[r].row]]
    /\ UNCHANGED <<now, faults, last, limiter, call>>

ResetAudit(r) ==
    /\ reqs[r].pc = "reset_audit"
    /\ LET out == log_audit_event(db, "password_reset_completed",
                                  db.resets[reqs[r].row].user_id, FALSE)
       IN /\ db' = out.db
          /\ Finish(r, "reset_password", reqs[r].arg, Ret(TRUE))
    /\ UNCHANGED <<now, faults, last, limiter, call>>

Next ==
    \/ Tick
    \/ RegisterUser
    \/ AuthenticateUser
    \/ RefreshToken
    \/ LogoutUser
    \/ GetCurrentUser
    \/ ForgotPassword
    \/ ResetPassword
    \/ ChangePassword
    \/ DeactivateUser
    \/ RevokeSession
    \/ RevokeAllSessions

Spec == Init /\ [][Next]_vars

\* the interleaved requests are studied on fault-free histories of MaxConcUsers
\* users in which the calls that set the scene succeed
Settled ==
    /\ faults' = faults
    /\ Len(db'.users) <= MaxConcUsers
    /\ last'.resp.status = 200

NextConc ==
    \/ Tick /\ now < MaxConcTime
    \/ RegisterUser /\ Settled
    \/ AuthenticateUser /\ Settled
    \/ ForgotPassword /\ Settled
    \/ \E r \in 1..MaxReqs : RefreshBegin(r)
    \/ \E r \in 1..MaxReqs : RefreshDeactivate(r)
    \/ \E r \in 1..MaxReqs : RefreshIssue(r)
    \/ \E r \in 1..MaxReqs : ResetBegin(r)
    \/ \E r \in 1..MaxReqs : ResetUpdate(r)
    \/ \E r \in 1..MaxReqs : ResetCommitStep(r)
    \/ \E r \in 1..MaxReqs : ResetAudit(r)

SpecConc == Init /\ [][NextConc]_vars
\* deactivate_user next to refresh_token requests that run step by step
NextDeact ==
    \/ Tick
    \/ RegisterUser /\ Settled
    \/ AuthenticateUser /\ Settled
    \/ DeactivateUser /\ Settled
    \/ \E r \in 1..MaxReqs : RefreshBegin(r)
    \/ \E r \in 1..MaxReqs : RefreshDeactivate(r)
    \/ \E r \in 1..MaxReqs : RefreshIssue(r)

SpecDeact == Init /\ [][NextDeact]_vars

\* --------------------------------------------------- the rate limiter's steps
ClockTick ==
    /\ clock < MaxClock
    /\ clock' = clock + 1
    /\ UNCHANGED <<rate_limit_storage, granted, verdict, core, call>>

IsAllowed ==
    \E identifier \in ClientIps, endpoint \in Endpoints :
        LET key == RateKey(identifier, endpoint)
            out == is_allowed(rate_limit_storage, clock, identifier, endpoint)
        IN /\ rate_limit_storage' = out.storage
           /\ granted' = IF out.result THEN [granted EXCEPT ![key] = Append(@, clock)]
                         ELSE granted
           /\ verdict' = [op |-> "is_allowed", key |-> key, at |-> clock, result |-> out.result]
           /\ UNCHANGED <<clock, core, call>>

GetLimitsInfo ==
    \E identifier \in ClientIps, endpoint \in Endpoints :
        LET key == RateKey(identifier, endpoint)
            out == get_limits_info(rate_limit_storage, clock, identifier, endpoint)
        IN /\ rate_limit_storage' = out.storage
           /\ verdict' = [op |-> "get_limits_info", key |-> key, at |-> clock,
                          result |-> out.result]
           /\ UNCHANGED <<clock, granted, core, call>>

NextRate ==
    \/ ClockTick
    \/ IsAllowed
    \/ GetLimitsInfo

SpecRate == Init /\ [][NextRate]_vars

\* ------------------------------------------ users and the roles they hold
\* register_user called with each of the seeded roles
RegisterWithRole ==
    \E email \in ValidEmails, role_name \in SeededRoles :
          Done("register_user", email,
               register_user(db, now, email, NoUsername, PwStrongA, role_name, FALSE))

\* a role added to a user, as user.roles.append(role) does at registration: the
\* service has no method for it, the row is inserted into user_roles
AssignRole ==
    \E user_id \in UserIds, role_name \in SeededRoles :
          LET d == AddRole(db, user_id, role_name)
          IN /\ d # db
             /\ db' = d
             /\ last' = [op |-> "assign_role", arg |-> role_name, at |-> now, resp |-> Ret(user_id)]
             /\ UNCHANGED <<now, faults, reqs, limiter, call>>

NextPerm ==
    \/ RegisterWithRole
    \/ AssignRole

SpecPerm == Init /\ [][NextPerm]_vars

\* -------------------------------------------- registrations under usernames
\* the usernames a registration may carry: none, two names, and the email of
\* another account
RegUsernames == {NoUsername, "alice", "bob", "a@x.com"}

RegisterNamed ==
    \E email \in ValidEmails, username \in RegUsernames :
          Done("register_user", [email |-> email, username |-> username],
               register_user(db, now, email, username, PwStrongA, "client", FALSE))

NextReg ==
    \/ Tick
    \/ RegisterNamed
    \/ DeactivateUser

SpecReg == Init /\ [][NextReg]_vars

\* ------------------------------------------- gates checked for a known user
\* the permissions a route asks for, by action_resource and by name, and one
\* that no role grants
GatePermissions == {"read_properties", "admin_system", "chat_access", "fly_rockets"}

\* the agent ids a property row can carry
AgentIds == UserIds \cup {NoAgent, UnknownId}

\* a gate ran for the user and gave this answer
Checked(fn, args, result) ==
    /\ call' = [fn |-> fn, args |-> args, result |-> result]
    /\ UNCHANGED <<core, limiter>>

RequirePermission ==
    \E user_id \in UserIds, permission \in GatePermissions :
          Checked("require_permission", [user_id |-> user_id, permission |-> permission],
                  require_permission(db, user_id, permission))

RequireRole ==
    \E user_id \in UserIds, role_name \in SeededRoles :
          Checked("require_role", [user_id |-> user_id, role_name |-> role_name],
                  require_role(db, user_id, role_name))

RequireAdmin ==
    \E user_id \in UserIds :
          Checked("require_admin", [user_id |-> user_id], require_admin(db, user_id))

RequireAgentOrAdmin ==
    \E user_id \in UserIds :
          Checked("require_agent_or_admin", [user_id |-> user_id],
                  require_agent_or_admin(db, user_id))

CanEditProperties ==
    \E user_id \in UserIds, property_agent_id \in AgentIds :
          Checked("can_edit_properties",
                  [user_id |-> user_id, property_agent_id |-> property_agent_id],
                  can_edit_properties(db, user_id, property_agent_id))

CanDeleteProperties ==
    \E user_id \in UserIds, property_agent_id \in AgentIds :
          Checked("can_delete_properties",
                  [user_id |-> user_id, property_agent_id |-> property_agent_id],
                  can_delete_properties(db, user_id, property_agent_id))

NextGate ==
    \/ (RegisterWithRole /\ call.fn = "none")
    \/ (AssignRole /\ call.fn = "none")
    \/ RequirePermission
    \/ RequireRole
    \/ RequireAdmin
    \/ RequireAgentOrAdmin
    \/ CanEditProperties
    \/ CanDeleteProperties

SpecGate == Init /\ [][NextGate]_vars

\* ------------------------------------------------ CSRF tokens in circulation
CsrfUsers == 1..MaxCsrfUsers

\* what a client may send in place of the token it was given
Alterations == {"none", "timestamp", "padding", "signature", "secret", "malformed"}

Altered(token, how) ==
    IF how = "timestamp" THEN [token EXCEPT !.timestamp_str.digits = @ + 1]
    ELSE IF how = "padding" THEN [token EXCEPT !.timestamp_str.padded = TRUE]
    ELSE IF how = "signature" THEN [token EXCEPT !.signature.message = <<0, str(0)>>]
    ELSE IF how = "secret" THEN [token EXCEPT !.signature.key = "attacker-key"]
    ELSE IF how = "malformed" THEN MalformedToken
    ELSE token

GenerateToken ==
    \E user_id \in CsrfUsers :
          /\ call' = [fn |-> "generate_token", args |-> [user_id |-> user_id, at |-> clock],
                      result |-> generate_token(user_id, clock)]
          /\ UNCHANGED <<core, limiter>>

\* a token generated for issued_to at issued_at comes back, altered or not, in
\* a request of user_id
ValidateToken ==
    \E issued_to \in CsrfUsers, issued_at \in 0..clock, how \in Alterations, user_id \in CsrfUsers :
          LET token == Altered(generate_token(issued_to, issued_at), how)
          IN /\ call' = [fn |-> "validate_token",
                         args |-> [token |-> token, user_id |-> user_id, at |-> clock,
                                   issued_to |-> issued_to, issued_at |-> issued_at, how |-> how],
                         result |-> validate_token(token, user_id, clock)]
             /\ UNCHANGED <<core, limiter>>

NextCsrf ==
    \/ ClockTick
    \/ GenerateToken
    \/ ValidateToken

SpecCsrf == Init /\ [][NextCsrf]_vars

\* ------------------------------------------------- requests through the middleware
Paths == {"/auth/login", "/properties"}

\* what the downstream handler does when it is called
Handlers ==
    {[raises |-> FALSE, response |-> JSONResponse(200, [detail |-> "ok"])],
     [raises |-> FALSE, response |-> JSONResponse(401, [detail |-> "Invalid email or password"])],
     [raises |-> TRUE, response |-> JSONResponse(500, [detail |-> "unhandled"])]}

Middleware ==
    \E client_ip \in ClientIps, path \in Paths, handler \in Handlers :
        LET allowed == is_allowed(rate_limit_storage, clock, client_ip,
                                   IF path \in auth_endpoints THEN "auth" ELSE "general").result
            out == AuthMiddleware_call(rate_limit_storage, clock, client_ip, path, handler)
        IN /\ rate_limit_storage' = out.storage
           /\ call' = [fn |-> "AuthMiddleware.__call__",
                       args |-> [client_ip |-> client_ip, path |-> path, at |-> clock,
                                 allowed |-> allowed],
                       result |-> [call_next |-> out.call_next, response |-> out.response]]
           /\ UNCHANGED <<clock, granted, verdict, core>>

NextMw ==
    \/ ClockTick
    \/ Middleware

SpecMw == Init /\ [][NextMw]_vars

\* ------------------------------------------------- calls of pure functions
\* the call under study has not been made yet
Pending(fn) ==
    /\ call.fn = fn
    /\ call.result = NoValue

\* the call returns
Return(result) ==
    /\ call' = [call EXCEPT !.result = result]
    /\ UNCHANGED <<core, limiter>>

PwChars == {"A", "b", "1", "!"}

\* every password of up to MaxPwLen characters, and the ones users register
PasswordInputs ==
    UNION {[1..n -> PwChars] : n \in 0..MaxPwLen} \cup {PwStrongA, PwStrongB, PwWeak}

InitPw ==
    /\ Constructed
    /\ \E password \in PasswordInputs :
          call = [fn |-> "validate_password_strength", args |-> password, result |-> NoValue]

ValidatePasswordStrength ==
    /\ Pending("validate_password_strength")
    /\ Return(validate_password_strength(call.args))

NextPw == ValidatePasswordStrength

SpecPw == InitPw /\ [][NextPw]_vars

\* ================================================================= claims
StrongPasswords == {PwStrongA, PwStrongB}

AllPasswords == StrongPasswords \cup {PwWeak}

InvalidOrExpiredToken == Raise(400, "Invalid or expired reset token")

\* the user ids that have an active session row
HasActiveSession(d, user_id) == ActiveSessionsOf(d, user_id) # {}

\* C1: token rotation is single-use.  For every session row: while the row is
\* active and unexpired, refresh_token with its refresh token R succeeds and
\* returns a pair whose refresh token differs from R; once the row is inactive
\* (R was rotated), refresh_token(R) fails with 401 and changes nothing.
C1_RotationSingleUse ==
    \A i \in DOMAIN db.sessions :
        LET s == db.sessions[i]
            out == refresh_token(db, now, s.refresh_token)
        IN /\ (s.is_active /\ s.expires_at > now)
                => /\ out.resp.exc = "none"
                   /\ out.resp.value.refresh_token # s.refresh_token
           /\ ~s.is_active
                => /\ out.resp.status = 401
                   /\ out.db = db

C2_StateOK ==
    /\ \A i \in DOMAIN db.resets :
        LET r == db.resets[i]
        IN /\ (~r.used /\ r.expires_at > now)
                => \A pw \in StrongPasswords :
                      LET out == reset_password(db, now, r.reset_token, pw, "none")
                      IN /\ out.resp = Ret(TRUE)
                         /\ ~HasActiveSession(out.db, r.user_id)
                         /\ out.db.resets[i].used
           /\ r.used
                => \A pw \in AllPasswords :
                      LET out == reset_password(db, now, r.reset_token, pw, "none")
                      IN /\ out.resp = (IF pw \in StrongPasswords
                                        THEN InvalidOrExpiredToken ELSE RaiseWeak(pw))
                         /\ out.db = db
    /\ (last.op = "reset_password" /\ last.resp.exc = "none")
          => \E i \in DOMAIN db.resets :
                /\ db.resets[i].reset_token = last.arg.token
                /\ db.resets[i].used
                /\ ~HasActiveSession(db, db.resets[i].user_id)

Succeeded(q) == q.pc = "done" /\ q.resp.exc = "none"

\* C3: of two refresh_token requests that present the same refresh token and
\* interleave, at most one succeeds.
C3_ConcurrentRefreshOnce ==
    \A r1, r2 \in 1..MaxReqs :
        (/\ r1 # r2
         /\ Succeeded(reqs[r1]) /\ reqs[r1].kind = "refresh_token"
         /\ Succeeded(reqs[r2]) /\ reqs[r2].kind = "refresh_token")
            => reqs[r1].arg # reqs[r2].arg

\* C4: of two reset_password requests that present the same reset token and
\* interleave, at most one succeeds.
C4_ConcurrentResetOnce ==
    \A r1, r2 \in 1..MaxReqs :
        (/\ r1 # r2
         /\ Succeeded(reqs[r1]) /\ reqs[r1].kind = "reset_password"
         /\ Succeeded(reqs[r2]) /\ reqs[r2].kind = "reset_password")
            => reqs[r1].arg.token # reqs[r2].arg.token

C5_StateOK ==
    /\ (/\ last.op = "authenticate_user"
        /\ last.resp.exc = "none"
        /\ now < last.resp.value.tokens.access_token.payload.exp)
          => /\ get_current_user(db, now, last.resp.value.tokens.access_token).resp
                  = Ret(last.resp.value.user_id)
             /\ db.users[UserById(db, last.resp.value.user_id)].email = last.arg
    /\ (last.op = "logout_user" /\ last.resp.exc = "none")
          => \A k \in DOMAIN db.sessions :
                db.sessions[k].session_token = last.arg => ~db.sessions[k].is_active
    /\ \A k \in DOMAIN db.sessions :
          ~db.sessions[k].is_active
             => LET out == get_current_user(db, now, db.sessions[k].session_token)
                IN out.resp.exc = "HTTPException" /\ out.resp.status = 401 /\ out.db = db

\* C5: login/logout.  After authenticate_user succeeds, and until the access
\* token it returned expires, get_current_user with that token answers that
\* user; a successful logout_user leaves the token's session row inactive; a
\* row that is inactive stays so and keeps its token, no other row ever
\* carries that token, and get_current_user with the token of an inactive row
\* fails with 401.
C5_LoginLogout ==
    /\ []C5_StateOK
    /\ [][\A k \in DOMAIN db.sessions :
             /\ k \in DOMAIN db'.sessions
             /\ db'.sessions[k].session_token = db.sessions[k].session_token
             /\ (~db.sessions[k].is_active => ~db'.sessions[k].is_active)
             /\ \A j \in DOMAIN db'.sessions :
                   db'.sessions[j].session_token = db.sessions[k].session_token => j = k]_vars

\* a user logged in, was served, and logged out
C5_Witness ==
    /\ last.op = "logout_user"
    /\ last.resp.exc = "none"
    /\ \E k \in DOMAIN db.sessions :
          /\ db.sessions[k].session_token = last.arg
          /\ ~db.sessions[k].is_active
          /\ db.sessions[k].last_accessed > last.arg.payload.iat

\* C6: revoke_all_sessions(user, except_current = T), T the access token of an
\* active session of the user, leaves exactly the row of T active for that
\* user, returns the number of the user's active rows minus one, and changes
\* no row of another user.
C6_RevokeAllExceptCurrent ==
    /\ \A u \in DOMAIN db.users, k \in DOMAIN db.sessions :
          (db.sessions[k].user_id = db.users[u].id /\ db.sessions[k].is_active)
             => LET uid == db.users[u].id
                    out == revoke_all_sessions(db, now, uid, db.sessions[k].session_token, FALSE)
                IN /\ ActiveSessionsOf(out.db, uid) = {k}
                   /\ out.resp = Ret(Cardinality(ActiveSessionsOf(db, uid)) - 1)
                   /\ Len(out.db.sessions) = Len(db.sessions)
                   /\ \A j \in DOMAIN db.sessions :
                         db.sessions[j].user_id # uid => out.db.sessions[j] = db.sessions[j]
    /\ (/\ last.op = "revoke_all_sessions"
        /\ last.resp.exc = "none"
        /\ \E k \in ActiveSessionsOf(db, last.arg.user_id) :
              db.sessions[k].session_token = last.arg.except_current)
          => Cardinality(ActiveSessionsOf(db, last.arg.user_id)) = 1

\* a revocation that kept the caller's session and deactivated another one
C6_Witness ==
    /\ last.op = "revoke_all_sessions"
    /\ last.resp.exc = "none"
    /\ last.resp.value >= 1
    /\ \E k \in ActiveSessionsOf(db, last.arg.user_id) :
          db.sessions[k].session_token = last.arg.except_current

\* an active user has this email (what create_password_reset_token looks up)
ActiveUserWithEmail(d, email) ==
    \E u \in DOMAIN d.users : d.users[u].email = email /\ d.users[u].is_active

\* C7: forgot-password answers an email without an active user exactly as it
\* answers the email of an active user (same status, same body), and creates
\* no PasswordReset row for it.
C7_EnumerationResistance ==
    \A e1, e2 \in ValidEmails :
        (~ActiveUserWithEmail(db, e1) /\ ActiveUserWithEmail(db, e2))
           => /\ forgot_password(db, now, e1, FALSE).resp = forgot_password(db, now, e2, FALSE).resp
              /\ forgot_password(db, now, e1, FALSE).db.resets = db.resets

\* what one call of reset_password did to the rows of reset token i
ResetAllOrNothing(d, e, i) ==
    LET u == UserById(d, d.resets[i].user_id)
        marked == ~d.resets[i].used /\ e.resets[i].used
        replaced == e.users[u].password_hash # d.users[u].password_hash
        deactivated == ActiveSessionsOf(e, d.resets[i].user_id) = {}
    IN IF marked
       THEN replaced /\ deactivated
       ELSE e.users = d.users /\ e.sessions = d.sessions /\ e.resets = d.resets

\* C8: reset_password is atomic.  Whatever step of it fails (the commit of its
\* transaction, or the audit write after it), the committed state has the
\* token marked used, the hash replaced and the user's sessions deactivated
\* all together, or none of the three.
C8_ResetAtomic ==
    /\ \A i \in DOMAIN db.resets, pw \in AllPasswords, fault \in {"none", "commit", "audit"} :
          ResetAllOrNothing(db, reset_password(db, now, db.resets[i].reset_token, pw, fault).db, i)
    /\ (last.op = "reset_password" /\ Faulted(last.resp))
          => \E i \in DOMAIN db.resets :
                /\ db.resets[i].reset_token = last.arg.token
                /\ db.resets[i].used
                /\ ~HasActiveSession(db, db.resets[i].user_id)
                /\ verify_password(last.arg.new_password,
                                   db.users[UserById(db, db.resets[i].user_id)].password_hash)

\* a reset_password whose audit write failed after its transaction committed,
\* for a user who had a session
C8_Witness ==
    /\ last.op = "reset_password"
    /\ Faulted(last.resp)
    /\ \E i \in DOMAIN db.resets, k \in DOMAIN db.sessions :
          /\ db.resets[i].reset_token = last.arg.token
          /\ db.sessions[k].user_id = db.resets[i].user_id

\* C9: a mutating operation whose audit write fails persists nothing: the
\* database is as before the call.
C9_AuditAtomic ==
    /\ \A email \in ValidEmails, password \in RegPasswords :
          LET out == register_user(db, now, email, NoUsername, password, "client", TRUE)
          IN Faulted(out.resp) => out.db = db
    /\ \A email \in Identifiers, password \in LoginPasswords :
          LET out == authenticate_user(db, now, email, password, TRUE)
          IN Faulted(out.resp) => out.db = db
    /\ \A token \in IssuedAccess :
          LET out == logout_user(db, now, token, TRUE)
          IN Faulted(out.resp) => out.db = db
    /\ \A user_id \in UserIds, current \in LoginPasswords, new \in NewPasswords :
          LET out == change_password(db, now, user_id, current, new, TRUE)
          IN Faulted(out.resp) => out.db = db
    /\ \A reset_token \in ResetTokens, new \in NewPasswords :
          LET out == reset_password(db, now, reset_token, new, "audit")
          IN Faulted(out.resp) => out.db = db
    /\ \A session_id \in SessionIds, user_id \in UserIds :
          LET out == revoke_session(db, now, session_id, user_id, TRUE)
          IN Faulted(out.resp) => out.db = db
    /\ \A user_id \in UserIds :
          LET out == revoke_all_sessions(db, now, user_id, NoToken, TRUE)
          IN Faulted(out.resp) => out.db = db
    /\ \A user_id \in UserIds, admin_user_id \in UserIds :
          LET out == deactivate_user(db, now, user_id, admin_user_id, TRUE)
          IN Faulted(out.resp) => out.db = db

\* C10: after change_password returns true, no session row of that user is
\* active.
C10_ChangePasswordRevokes ==
    \A user_id \in UserIds, current \in LoginPasswords, new \in NewPasswords :
        LET out == change_password(db, now, user_id, current, new, FALSE)
        IN out.resp = Ret(TRUE) => ~HasActiveSession(out.db, user_id)
\* the session row that makes an access token acceptable at time t
HasLiveRow(d, t, token) ==
    \E k \in DOMAIN d.sessions :
        /\ d.sessions[k].session_token = token
        /\ d.sessions[k].is_active
        /\ d.sessions[k].expires_at > t

Unauthenticated(resp) == resp.exc = "HTTPException" /\ resp.status = 401

\* C11: verify_token(token, "access") succeeds only when a session row holds
\* the token, is active and expires in the future; for every other token
\* (revoked, rotated, logged out, expired, refresh-typed, forged) it fails with
\* 401 and changes nothing.
C11_AccessNeedsLiveRow ==
    \A token \in Tokens :
        LET out == verify_token(db, now, token, "access")
        IN /\ out.resp.exc = "none" => HasLiveRow(db, now, token)
           /\ ~HasLiveRow(db, now, token) => Unauthenticated(out.resp) /\ out.db = db

\* an access token whose JWT is still valid but whose row was deactivated,
\* next to one that is accepted
C11_Witness ==
    /\ \E token \in IssuedAccess :
          /\ now < token.payload.exp
          /\ ~HasLiveRow(db, now, token)
    /\ \E token \in IssuedAccess : verify_token(db, now, token, "access").resp.exc = "none"

\* C12: token types are not confused.  A refresh token given to verify_token
\* as an access token, to get_current_user or to logout_user is rejected with
\* 401; an access token given to refresh_token is rejected with 401 and
\* rotates nothing.  While the token's exp lies in the future the rejection
\* is the type check's ("Invalid token type").
C12_NoTypeConfusion ==
    /\ \A token \in IssuedRefresh :
          /\ Unauthenticated(verify_token(db, now, token, "access").resp)
          /\ Unauthenticated(get_current_user(db, now, token).resp)
          /\ \A fail \in FailChoices : Unauthenticated(logout_user(db, now, token, fail).resp)
          /\ verify_token(db, now, token, "access").db = db
          /\ get_current_user(db, now, token).db = db
          /\ \A fail \in FailChoices : logout_user(db, now, token, fail).db = db
          /\ now < token.payload.exp
                => verify_token(db, now, token, "access").resp.detail = "Invalid token type"
    /\ \A token \in IssuedAccess :
          /\ Unauthenticated(refresh_token(db, now, token).resp)
          /\ refresh_token(db, now, token).db = db
          /\ now < token.payload.exp
                => refresh_token(db, now, token).resp.detail = "Invalid token type"

\* a live session: both of its tokens are unexpired and each is presented
\* where the other belongs
C12_Witness ==
    \E k \in DOMAIN db.sessions :
        /\ db.sessions[k].is_active
        /\ now < db.sessions[k].session_token.payload.exp
        /\ now < db.sessions[k].refresh_token.payload.exp
        /\ refresh_token(db, now, db.sessions[k].refresh_token).resp.exc = "none"

\* what a successful refresh_token(R) on row i does to the session table
RotatedExactly(d, e, i) ==
    LET n == Len(d.sessions)
        uid == d.sessions[i].user_id
    IN /\ Len(e.sessions) = n + 1
       /\ \A k \in 1..n :
             e.sessions[k] = IF k = i THEN [d.sessions[k] EXCEPT !.is_active = FALSE]
                             ELSE d.sessions[k]
       /\ e.sessions[n + 1].user_id = uid
       /\ e.sessions[n + 1].is_active
       /\ Cardinality(ActiveSessionsOf(e, uid)) = Cardinality(ActiveSessionsOf(d, uid))

C13_StateOK ==
    /\ \A i \in DOMAIN db.sessions :
          LET out == refresh_token(db, now, db.sessions[i].refresh_token)
          IN out.resp.exc = "none"
                => /\ db.sessions[i].is_active
                   /\ RotatedExactly(db, out.db, i)
                   /\ Unauthenticated(
                         verify_token(out.db, now, db.sessions[i].session_token, "access").resp)
                   /\ Unauthenticated(
                         get_current_user(out.db, now, db.sessions[i].session_token).resp)
    /\ (last.op = "refresh_token" /\ last.resp.exc = "none")
          => \E i \in DOMAIN db.sessions :
                /\ db.sessions[i].refresh_token = last.arg
                /\ ~db.sessions[i].is_active
                /\ \A t \in now..MaxTime :
                      Unauthenticated(verify_token(db, t, db.sessions[i].session_token, "access").resp)

\* C13: a successful refresh_token(R) deactivates exactly the row holding R
\* and appends exactly one active row for the same user, so the user's number
\* of active sessions is unchanged; the access token paired with R is
\* rejected at once and, the row never becoming active again, from then on.
C13_RefreshRotates ==
    /\ []C13_StateOK
    /\ [][\A k \in DOMAIN db.sessions :
             ~db.sessions[k].is_active
                => /\ k \in DOMAIN db'.sessions
                   /\ ~db'.sessions[k].is_active
                   /\ db'.sessions[k].session_token = db.sessions[k].session_token
                   /\ db'.sessions[k].refresh_token = db.sessions[k].refresh_token]_vars

\* a rotation happened: the last call was a successful refresh and the paired
\* access token, still unexpired as a JWT, is no longer accepted
C13_Witness ==
    /\ last.op = "refresh_token"
    /\ last.resp.exc = "none"
    /\ \E i \in DOMAIN db.sessions :
          /\ db.sessions[i].refresh_token = last.arg
          /\ now < db.sessions[i].session_token.payload.exp
          /\ ~db.sessions[i].is_active
NoRedeemableRow(d, t, reset_token) ==
    ~\E k \in DOMAIN d.resets :
        /\ d.resets[k].reset_token = reset_token
        /\ ~d.resets[k].used
        /\ d.resets[k].expires_at > t

CountIn(timestamps, from, to) ==
    Cardinality({i \in DOMAIN timestamps : from < timestamps[i] /\ timestamps[i] <= to})

\* C16: the rate limiter's minute window.  For one key, once
\* requests_per_minute calls have been allowed less than a minute window ago,
\* the next is_allowed call returns false; on a key whose only calls were
\* those, the call made one clock step more than a minute window after the
\* first of them returns true again.
C16_MinuteWindow ==
    \A identifier \in ClientIps, endpoint \in Endpoints :
        LET key == RateKey(identifier, endpoint)
            g == granted[key]
            out == is_allowed(rate_limit_storage, clock, identifier, endpoint)
        IN /\ (/\ Len(g) >= requests_per_minute
               /\ clock - g[Len(g) - requests_per_minute + 1] < minute_window)
                 => ~out.result
           /\ (/\ Len(g) = requests_per_minute
               /\ clock = g[1] + minute_window + 1)
                 => out.result

\* a call was just denied on a key that had used up its minute cap within the
\* window
C16_Witness ==
    /\ verdict.op = "is_allowed"
    /\ verdict.result = FALSE
    /\ verdict.at = clock
    /\ Len(granted[verdict.key]) = requests_per_minute
    /\ clock - granted[verdict.key][1] < minute_window

\* C17: a denied is_allowed call records nothing.  A call that returns false
\* adds no timestamp for its key (it only drops the ones older than the hour
\* window), so the key's later verdicts are what they would have been without
\* it; a call that returns true adds exactly one timestamp, the current time;
\* no call touches another key.
C17_DeniedRecordsNothing ==
    \A identifier \in ClientIps, endpoint \in Endpoints :
        LET key == RateKey(identifier, endpoint)
            before == rate_limit_storage[key]
            out == is_allowed(rate_limit_storage, clock, identifier, endpoint)
            after == out.storage[key]
        IN /\ \A other \in RateKeys \ {key} : out.storage[other] = rate_limit_storage[other]
           /\ ~out.result
                => /\ Len(after) <= Len(before)
                   /\ \A x \in 0..MaxClock :
                         CountIn(after, x - 1, x) <= CountIn(before, x - 1, x)
                   /\ \A t \in clock..MaxClock :
                         is_allowed(out.storage, t, identifier, endpoint).result
                            = is_allowed(rate_limit_storage, t, identifier, endpoint).result
           /\ out.result
                => /\ CountIn(after, clock - 1, clock) = CountIn(before, clock - 1, clock) + 1
                   /\ \A x \in 0..MaxClock :
                         x # clock => CountIn(after, x - 1, x) <= CountIn(before, x - 1, x)

\* a call was just denied by the hour cap, and the key's timestamps are the
\* ones it had
C17_Witness ==
    /\ verdict.op = "is_allowed"
    /\ verdict.result = FALSE
    /\ verdict.at = clock
    /\ Len(rate_limit_storage[verdict.key]) = requests_per_hour
    /\ minute_requests(rate_limit_storage[verdict.key], clock) < requests_per_minute

\* C18: the rate limiter's invariant.  For every key, every window of one
\* minute (from, from + minute_window] holds at most requests_per_minute
\* allowed calls, the allowed calls of the last hour are at most
\* requests_per_hour, and so are the stored timestamps.
C18_RateInvariant ==
    \A key \in RateKeys :
        /\ \A from \in (0 - minute_window)..MaxClock :
              CountIn(granted[key], from, from + minute_window) <= requests_per_minute
        /\ CountIn(granted[key], clock - hour_window, clock) <= requests_per_hour
        /\ Len(rate_limit_storage[key]) <= requests_per_hour

\* a key that is at its hour cap after older calls of its were pruned
C18_Witness ==
    \E key \in RateKeys :
        /\ Len(rate_limit_storage[key]) = requests_per_hour
        /\ Len(granted[key]) > requests_per_hour
\* every string a permission check can be asked about: the seeded names, the
\* action_resource strings, and one that is neither
PermissionStrings ==
    {permission.name : permission \in permissions_data}
       \cup {PermissionString(permission) : permission \in permissions_data}
       \cup {"fly_rockets"}

\* C19: has_permission is monotonic in roles.  For every user, role and
\* permission string, adding the role never turns has_permission from true to
\* false, and get_user_permissions after the addition is a superset of the
\* set before; so it is over every step that adds a role or a user.
C19_RoleMonotonic ==
    [][/\ \A user_id \in UserIds \cup {UnknownId} :
             /\ get_user_permissions(db, user_id) \subseteq get_user_permissions(db', user_id)
             /\ \A permission \in PermissionStrings :
                   has_permission(db, user_id, permission) => has_permission(db', user_id, permission)
       /\ \A user_id \in UserIds, role_name \in SeededRoles :
             LET d == AddRole(db, user_id, role_name)
             IN /\ get_user_permissions(db, user_id) \subseteq get_user_permissions(d, user_id)
                /\ \A permission \in PermissionStrings :
                      has_permission(db, user_id, permission) => has_permission(d, user_id, permission)
      ]_vars

\* a role was just added to a user who keeps a permission of the old role and
\* has one of the new role
C19_Witness ==
    /\ last.op = "assign_role"
    /\ last.arg = "admin"
    /\ LET user_id == last.resp.value
       IN /\ "client" \in db.users[UserById(db, user_id)].roles
          /\ has_permission(db, user_id, "read_properties")
          /\ has_permission(db, user_id, "admin_system")

\* C20: get_user_permissions(user_id) is the union, over the roles the user
\* holds, of the action_resource strings of the permissions granted to each
\* role, and is empty for a user id that does not exist; has_permission is
\* membership in that set.  A client may read_chat and create_files, which
\* the seed data names chat_access and upload_files.
C20_PermissionsAreUnion ==
    /\ get_user_permissions(db, UnknownId) = {}
    /\ \A permission \in PermissionStrings : ~has_permission(db, UnknownId, permission)
    /\ \A i \in DOMAIN db.users :
          LET user == db.users[i]
              held == get_user_permissions(db, user.id)
          IN /\ \A s \in PermissionStrings :
                   /\ s \in held
                        <=> \E role \in user.roles, permission \in permissions_data :
                               /\ permission.name \in roles_data(role)
                               /\ s = permission.action \o "_" \o permission.resource
                   /\ has_permission(db, user.id, s) <=> s \in held
             /\ held \subseteq PermissionStrings
             /\ "client" \in user.roles
                  => {"read_properties", "read_chat", "create_files", "read_files"} \subseteq held
             /\ user.roles = {"client"}
                  => held = {"read_properties", "read_chat", "create_files", "read_files"}
             /\ "admin" \in user.roles => {"admin_system", "config_system"} \subseteq held
             /\ "chat_access" \notin held

\* a user who holds two roles and has the permissions of both, next to an id
\* that belongs to nobody
C20_Witness ==
    \E i \in DOMAIN db.users :
        /\ db.users[i].roles = {"agent", "employee"}
        /\ has_permission(db, db.users[i].id, "delete_files")
        /\ has_permission(db, db.users[i].id, "read_users")
        /\ get_user_permissions(db, UnknownId) = {}
\* the password has a character of the class
HasChar(password, class) == \E i \in DOMAIN password : password[i] \in class

\* the messages of the rules the password breaks
BrokenRules(password) ==
    (IF Len(password) < 8 THEN {ErrLength} ELSE {})
       \cup (IF HasChar(password, UpperChars) THEN {} ELSE {ErrUpper})
       \cup (IF HasChar(password, LowerChars) THEN {} ELSE {ErrLower})
       \cup (IF HasChar(password, DigitChars) THEN {} ELSE {ErrDigit})
       \cup (IF HasChar(password, special_chars) THEN {} ELSE {ErrSpecial})

\* validate_password_strength has returned
Validated ==
    /\ call.fn = "validate_password_strength"
    /\ call.result # NoValue

\* C21 as stated: a password that meets the four character rules (uppercase,
\* lowercase, digit, special character) is valid and has no errors.
C21_FourRulesOriginal ==
    Validated
      => ((/\ HasChar(call.args, UpperChars)
           /\ HasChar(call.args, LowerChars)
           /\ HasChar(call.args, DigitChars)
           /\ HasChar(call.args, special_chars))
            => /\ call.result.is_valid
               /\ call.result.errors = <<>>)

\* C21: the rules are five, the minimum length of 8 and the four character
\* rules.  A password that meets all five is valid with no errors; for any
\* other password is_valid is false, the message of every rule it breaks is in
\* errors, once, and the message of no rule it meets is.
C21_EveryBrokenRuleListed ==
    Validated
      => LET errors == call.result.errors
             listed == {errors[i] : i \in DOMAIN errors}
         IN /\ listed = BrokenRules(call.args)
            /\ Len(errors) = Cardinality(listed)
            /\ call.result.is_valid <=> BrokenRules(call.args) = {}
            /\ BrokenRules(call.args) = {} => errors = <<>>

\* a password that breaks several rules was validated, the length rule among
\* them
C21_Witness ==
    /\ Validated
    /\ Cardinality(BrokenRules(call.args)) >= 3
    /\ ErrLength \in BrokenRules(call.args)
    /\ ~call.result.is_valid
\* an id no session row carries
UnknownSessionId == Len(db.sessions) + 1

\* C22: revoke_session(session_id, user_id) returns true and deactivates the
\* row exactly when a session with that id, owned by that user, is active;
\* otherwise (not found, owned by another user, already inactive) it returns
\* false and changes nothing.  Whatever it returns, it changes no row of another
\* user and no row with another id.
C22_RevokeOwnSessionOnly ==
    /\ \A session_id \in SessionIds \cup {UnknownSessionId}, user_id \in UserIds \cup {UnknownId} :
          LET out == revoke_session(db, now, session_id, user_id, FALSE)
              owned == {k \in DOMAIN db.sessions : /\ db.sessions[k].id = session_id
                                                   /\ db.sessions[k].user_id = user_id
                                                   /\ db.sessions[k].is_active}
          IN /\ owned # {}
                  => /\ out.resp = Ret(TRUE)
                     /\ \A k \in owned : ~out.db.sessions[k].is_active
                     /\ \A k \in DOMAIN db.sessions \ owned : out.db.sessions[k] = db.sessions[k]
                     /\ Cardinality(owned) = 1
             /\ owned = {}
                  => /\ out.resp = Ret(FALSE)
                     /\ out.db = db
             /\ \A fail \in FailChoices :
                   LET o == revoke_session(db, now, session_id, user_id, fail)
                   IN /\ Len(o.db.sessions) = Len(db.sessions)
                      /\ \A k \in DOMAIN db.sessions :
                            (db.sessions[k].user_id # user_id \/ db.sessions[k].id # session_id)
                               => o.db.sessions[k] = db.sessions[k]
    /\ (last.op = "revoke_session" /\ last.resp.exc = "none")
          => \A k \in DOMAIN db.sessions :
                db.sessions[k].id = last.arg.session_id
                   => /\ db.sessions[k].user_id = last.arg.user_id
                      /\ ~db.sessions[k].is_active

\* a user revoked one of their two sessions and the other is still active
C22_Witness ==
    /\ last.op = "revoke_session"
    /\ last.resp = Ret(TRUE)
    /\ \E k, j \in DOMAIN db.sessions :
          /\ db.sessions[k].id = last.arg.session_id
          /\ ~db.sessions[k].is_active
          /\ j # k
          /\ db.sessions[j].is_active

\* C23: get_user_sessions(user_id) returns exactly the session rows of that
\* user with is_active true and expires_at later than now: a row is listed
\* if and only if it is the user's, active and unexpired, so no revoked,
\* rotated, logged-out or expired session and no session of another user is.
C23_ListsLiveSessionsOnly ==
    /\ get_user_sessions(db, now, UnknownId) = {}
    /\ \A user_id \in UserIds :
          LET listed == get_user_sessions(db, now, user_id)
          IN /\ \A k \in DOMAIN db.sessions :
                   LET s == db.sessions[k]
                   IN (\E e \in listed : e.id = s.id)
                         <=> (s.user_id = user_id /\ s.is_active /\ now < s.expires_at)
             /\ \A e \in listed :
                   \E k \in DOMAIN db.sessions :
                       /\ db.sessions[k].id = e.id
                       /\ db.sessions[k].expires_at = e.expires_at
                       /\ db.sessions[k].last_accessed = e.last_accessed
    /\ (/\ last.op \in {"revoke_session", "logout_user", "refresh_token"}
        /\ last.at = now
        /\ last.resp.exc = "none")
          => \A user_id \in UserIds :
                \A e \in get_user_sessions(db, now, user_id), k \in DOMAIN db.sessions :
                    db.sessions[k].id = e.id
                       => /\ (last.op = "revoke_session" => e.id # last.arg.session_id)
                          /\ (last.op = "logout_user" => db.sessions[k].session_token # last.arg)
                          /\ (last.op = "refresh_token" => db.sessions[k].refresh_token # last.arg)

\* a user with two sessions of which one is active but expired: only the other
\* is listed
C23_Witness ==
    \E user_id \in UserIds :
        /\ Cardinality(get_user_sessions(db, now, user_id)) = 1
        /\ \E k \in DOMAIN db.sessions :
              /\ db.sessions[k].user_id = user_id
              /\ db.sessions[k].is_active
              /\ db.sessions[k].expires_at <= now
\* the identifier and the password are those of an active user
CredentialsOf(d, identifier, password) ==
    {k \in DOMAIN d.users :
        /\ d.users[k].email = identifier \/ d.users[k].username = identifier
        /\ d.users[k].is_active
        /\ verify_password(password, d.users[k].password_hash)}

\* C24: authenticate_user fails with 401 when the identifier matches no
\* active user (unknown or deactivated) or the password does not verify; a
\* call that fails creates no session row and leaves last_login as it was; a
\* call that succeeds creates exactly one new active session, of that user.
C24_LoginAllOrNothing ==
    \A identifier \in Identifiers \cup {"nobody@x.com"}, password \in LoginPasswords \cup {PwWeak} :
        LET out == authenticate_user(db, now, identifier, password, FALSE)
            n == Len(db.sessions)
        IN /\ CredentialsOf(db, identifier, password) = {}
                => out.resp = Raise(401, "Invalid email or password")
           /\ out.resp.exc # "none"
                => /\ out.db.sessions = db.sessions
                   /\ \A k \in DOMAIN db.users :
                         out.db.users[k].last_login = db.users[k].last_login
           /\ out.resp.exc = "none"
                => /\ CredentialsOf(db, identifier, password) # {}
                   /\ Len(out.db.sessions) = n + 1
                   /\ \A k \in 1..n : out.db.sessions[k] = db.sessions[k]
                   /\ out.db.sessions[n + 1].is_active
                   /\ out.db.sessions[n + 1].user_id = out.resp.value.user_id
                   /\ out.db.sessions[n + 1].user_id
                         \in {db.users[k].id : k \in CredentialsOf(db, identifier, password)}
\* the username a registration stores when it is given this one
StoredUsername(email, username) == IF username = NoUsername THEN email ELSE username

\* C25: registration uniqueness.  register_user with an email or a username
\* that an existing user has, active or not, fails with the conflict answer and
\* creates no user; no two users share an email and no two share a username.
C25_RegistrationUnique ==
    /\ \A i, j \in DOMAIN db.users :
          i # j => /\ db.users[i].email # db.users[j].email
                   /\ db.users[i].username # db.users[j].username
    /\ \A email \in ValidEmails, username \in RegUsernames :
          LET out == register_user(db, now, email, username, PwStrongA, "client", FALSE)
              taken == \E i \in DOMAIN db.users :
                          \/ db.users[i].email = email
                          \/ db.users[i].username = StoredUsername(email, username)
          IN /\ taken => /\ out.resp = Raise(400, "User with this email or username already exists")
                         /\ out.db = db
             /\ ~taken => /\ out.resp.exc = "none"
                          /\ Len(out.db.users) = Len(db.users) + 1

\* a user registered under a username, and a registration of another email
\* under the same username is refused
C25_Witness ==
    /\ last.op = "register_user"
    /\ Len(db.users) = 1
    /\ db.users[1].email = "a@x.com"
    /\ db.users[1].username = "alice"
    /\ register_user(db, now, "b@x.com", "alice", PwStrongA, "client", FALSE).resp.status = 400
\* the user holds the role
Holds(user_id, role_name) == role_name \in db.users[UserById(db, user_id)].roles

\* the rule of C26 for one user and one property
OwnershipRule(user_id, property_agent_id) ==
    IF Holds(user_id, "admin") THEN TRUE
    ELSE IF Holds(user_id, "agent") THEN property_agent_id \in {NoAgent, user_id}
    ELSE FALSE

\* C26: the resource ownership rule for edit and delete.  can_edit_properties
\* and can_delete_properties are true for any user holding admin; for a user
\* holding agent but not admin, true exactly when the resource's agent id
\* is unset or the user's id; for a user holding neither, false.
C26_OwnershipRule ==
    /\ \A user_id \in UserIds, property_agent_id \in AgentIds :
          /\ can_edit_properties(db, user_id, property_agent_id)
                = OwnershipRule(user_id, property_agent_id)
          /\ can_delete_properties(db, user_id, property_agent_id)
                = OwnershipRule(user_id, property_agent_id)
    /\ call.fn \in {"can_edit_properties", "can_delete_properties"}
          => call.result = OwnershipRule(call.args.user_id, call.args.property_agent_id)

\* an agent who is no admin was refused the edit of another agent's property
C26_Witness ==
    /\ call.fn = "can_edit_properties"
    /\ call.result = FALSE
    /\ Holds(call.args.user_id, "agent")
    /\ call.args.property_agent_id \in UserIds \ {call.args.user_id}

\* the gate let the user through
Passed(resp, user_id) == resp = Ret(user_id)

\* the gate answered 403
Forbidden(resp) == resp.exc = "HTTPException" /\ resp.status = 403

\* C27: role and permission gates.  require_role(r) answers 403 exactly when
\* the user's roles do not contain r, require_agent_or_admin exactly when they
\* contain neither agent nor admin, require_permission(p) exactly when
\* has_permission(user, p) is false; otherwise each gate returns the user.
C27_Gates ==
    /\ \A user_id \in UserIds :
          /\ \A role_name \in SeededRoles \cup {"superuser"} :
                LET resp == require_role(db, user_id, role_name)
                IN IF Holds(user_id, role_name) THEN Passed(resp, user_id) ELSE Forbidden(resp)
          /\ LET resp == require_admin(db, user_id)
             IN IF Holds(user_id, "admin") THEN Passed(resp, user_id) ELSE Forbidden(resp)
          /\ LET resp == require_agent_or_admin(db, user_id)
             IN IF Holds(user_id, "agent") \/ Holds(user_id, "admin")
                THEN Passed(resp, user_id) ELSE Forbidden(resp)
          /\ \A permission \in GatePermissions :
                LET resp == require_permission(db, user_id, permission)
                IN IF has_permission(db, user_id, permission)
                   THEN Passed(resp, user_id) ELSE Forbidden(resp)
    /\ call.fn = "require_role"
          => (Forbidden(call.result) <=> ~Holds(call.args.user_id, call.args.role_name))
    /\ call.fn = "require_agent_or_admin"
          => (Forbidden(call.result)
                <=> ~(Holds(call.args.user_id, "agent") \/ Holds(call.args.user_id, "admin")))
    /\ call.fn = "require_permission"
          => (Forbidden(call.result)
                <=> ~has_permission(db, call.args.user_id, call.args.permission))

\* a user who holds a role was refused by the gate of another role
C27_Witness ==
    /\ call.fn = "require_role"
    /\ Forbidden(call.result)
    /\ call.args.role_name = "agent"
    /\ Holds(call.args.user_id, "client")
\* validate_token has answered
TokenValidated == call.fn = "validate_token"

\* the token that came back is the one that was generated
Unaltered == call.args.how = "none"

\* C28 as stated: a token generated for u at time t validates for u at every
\* time up to t + max_age and is rejected after; it is rejected for every
\* other user and when its timestamp or signature was altered.
C28_RoundTripOriginal ==
    TokenValidated
      => LET a == call.args
             deadline == a.issued_at + max_age * TicksPerSecond
         IN /\ (Unaltered /\ a.user_id = a.issued_to /\ a.at <= deadline) => call.result
            /\ a.at > deadline => ~call.result
            /\ a.user_id # a.issued_to => ~call.result
            /\ ~Unaltered => ~call.result

\* C28: the age of a token counts from the whole second in which it was
\* generated.  A token generated for u at time t validates for u at every
\* time up to floor(t) + max_age and is rejected after; it is rejected for
\* every other user and when its timestamp or signature was altered.
C28_RoundTrip ==
    TokenValidated
      => LET a == call.args
             second == a.issued_at \div TicksPerSecond
             deadline == (second + max_age) * TicksPerSecond
         IN /\ (Unaltered /\ a.user_id = a.issued_to /\ a.at <= deadline) => call.result
            /\ a.at > deadline => ~call.result
            /\ a.user_id # a.issued_to => ~call.result
            /\ ~Unaltered => ~call.result

\* a token came back unaltered from its user after its age had passed max_age
\* and was rejected
C28_Witness ==
    /\ TokenValidated
    /\ Unaltered
    /\ call.args.user_id = call.args.issued_to
    /\ call.args.at > call.args.issued_at + max_age * TicksPerSecond
    /\ ~call.result
\* the event a finished call has to leave in the audit log, "" if none
EventOf(l) ==
    IF l.op = "authenticate_user"
    THEN (IF l.resp.exc = "none" THEN "login_success"
          ELSE IF l.resp.status = 401 THEN "login_failed" ELSE "")
    ELSE IF l.op \in {"register_user", "change_password", "reset_password",
                      "revoke_all_sessions"}
    THEN (IF l.resp.exc # "none" THEN ""
          ELSE IF l.op = "register_user" THEN "user_registered"
          ELSE IF l.op = "change_password" THEN "password_changed"
          ELSE IF l.op = "reset_password" THEN "password_reset_completed"
          ELSE "all_sessions_revoked")
    ELSE IF l.op \in {"logout_user", "revoke_session", "deactivate_user"}
    THEN (IF l.resp.exc # "none" \/ l.resp.value # TRUE THEN ""
          ELSE IF l.op = "logout_user" THEN "logout"
          ELSE IF l.op = "revoke_session" THEN "session_revoked"
          ELSE "user_deactivated")
    ELSE ""

\* C29: every security-relevant operation is audited.  A call that changed
\* the database and returned as a successful login, a failed login (401), a
\* logout, a registration, a password change, a password reset, a session
\* revocation or a user deactivation has appended at least one audit entry
\* whose action names that event.
C29_EventsAudited ==
    [][(db' # db /\ EventOf(last') # "")
          => /\ Len(db'.audit) > Len(db.audit)
             /\ \E i \in (Len(db.audit) + 1)..Len(db'.audit) :
                   db'.audit[i].action = EventOf(last')
      ]_vars

\* a login with a wrong password was answered 401 and is in the audit log
C29_Witness ==
    /\ last.op = "authenticate_user"
    /\ last.resp.status = 401
    /\ Len(db.audit) >= 2
    /\ db.audit[Len(db.audit)].action = "login_failed"
    /\ \E i \in DOMAIN db.audit : db.audit[i].action = "login_success"

\* C30: the audit log is append-only.  No operation removes an audit entry or
\* changes a field of one: the log after a step begins with the log before it;
\* each log_audit_event call adds exactly one entry.
C30_AuditAppendOnly ==
    [][/\ Len(db'.audit) >= Len(db.audit)
       /\ \A i \in DOMAIN db.audit : db'.audit[i] = db.audit[i]
       /\ \A action \in {"login_success", "logout"}, user_id \in UserIds \cup {0} :
             LET out == log_audit_event(db, action, user_id, FALSE)
             IN /\ Len(out.db.audit) = Len(db.audit) + 1
                /\ out.db.audit[Len(db.audit) + 1] = [user_id |-> user_id, action |-> action]
                /\ \A i \in DOMAIN db.audit : out.db.audit[i] = db.audit[i]
                /\ [out.db EXCEPT !.audit = db.audit] = db
                /\ log_audit_event(db, action, user_id, TRUE).db = db
      ]_vars

\* the log holds three entries of three operations, the oldest still first
C30_Witness ==
    /\ Len(db.audit) >= 3
    /\ db.audit[1].action = "user_registered"
    /\ db.audit[2].action = "login_success"
    /\ db.audit[Len(db.audit)].action \in {"logout", "password_changed", "session_revoked"}
\* C31: session rows are monotone.  No step of any operation deletes a
\* session row or changes its id, owner or tokens, and a row whose is_active
\* is false before the step has is_active false after it.
C31_SessionsMonotone ==
    [][/\ Len(db'.sessions) >= Len(db.sessions)
       /\ \A i \in DOMAIN db.sessions :
             /\ db'.sessions[i].id = db.sessions[i].id
             /\ db'.sessions[i].user_id = db.sessions[i].user_id
             /\ db'.sessions[i].session_token = db.sessions[i].session_token
             /\ db'.sessions[i].refresh_token = db.sessions[i].refresh_token
             /\ (~db.sessions[i].is_active => ~db'.sessions[i].is_active)
      ]_vars

\* a row was rotated away and then its successor was switched off as well
C31_Witness ==
    /\ Len(db.sessions) = 2
    /\ ~db.sessions[1].is_active
    /\ ~db.sessions[2].is_active
    /\ db.sessions[1].user_id = db.sessions[2].user_id
    /\ last.op \in {"logout_user", "revoke_session", "revoke_all_sessions",
                    "deactivate_user", "reset_password"}
\* C32: refresh_token is all-or-nothing.  For every token, refresh_token
\* either fails and leaves every session row as it was, the presented row
\* still active, or succeeds and has appended a new active session; it never
\* leaves the presented row inactive without a new session.
C32_RefreshAllOrNothing ==
    \A token \in Tokens :
        LET out == refresh_token(db, now, token)
        IN IF out.resp.exc # "none"
           THEN out.db.sessions = db.sessions
           ELSE /\ Len(out.db.sessions) = Len(db.sessions) + 1
                /\ out.db.sessions[Len(out.db.sessions)].is_active
                /\ out.db.sessions[Len(out.db.sessions)].user_id = token.payload.user_id

\* C33: generate_tokens succeeds for an existing user at any time and adds
\* exactly one session row, whose access token and refresh token differ from
\* those of every row already there.
C33_IssueAlwaysUnique ==
    \A k \in DOMAIN db.users :
        LET out == generate_tokens(db, now, db.users[k].id)
            n == Len(db.sessions)
        IN /\ out.resp.exc = "none"
           /\ Len(out.db.sessions) = n + 1
           /\ \A i \in 1..n :
                 /\ out.db.sessions[i] = db.sessions[i]
                 /\ out.db.sessions[n + 1].session_token # db.sessions[i].session_token
                 /\ out.db.sessions[n + 1].refresh_token # db.sessions[i].refresh_token
\* C34: verify_token changes state only on success.  A successful
\* verification of an access token changes nothing but the last_accessed field
\* of the one row holding the token, which becomes the current time; a
\* successful verification of a refresh token and every failed verification
\* leave the database as it was.
C34_VerifyTouchesLastAccessedOnly ==
    \A token \in Tokens, token_type \in {"access", "refresh"} :
        LET out == verify_token(db, now, token, token_type)
        IN IF out.resp.exc = "none" /\ token_type = "access"
           THEN \E i \in DOMAIN db.sessions :
                   /\ db.sessions[i].session_token = token
                   /\ out.db = [db EXCEPT !.sessions[i].last_accessed = now]
           ELSE out.db = db

\* an access token was verified after the second of its issue, so that its
\* row's last_accessed moved, while another token's verification fails
C34_Witness ==
    /\ last.op = "get_current_user"
    /\ last.resp.exc = "none"
    /\ \E i \in DOMAIN db.sessions :
          /\ db.sessions[i].session_token = last.arg
          /\ db.sessions[i].last_accessed = now
          /\ db.sessions[i].session_token.payload.iat < now
    /\ \E token \in IssuedAccess : verify_token(db, now, token, "access").resp.exc # "none"
\* C35: a request the rate limiter denies is answered 429 with the rate-limit
\* info and the downstream handler is not called; a denial is never answered
\* with another status.
C35_DenialIs429 ==
    (call.fn = "AuthMiddleware.__call__" /\ ~call.args.allowed)
        => /\ ~call.result.call_next
           /\ call.result.response.status_code = 429
           /\ "rate_limit_info" \in DOMAIN call.result.response.content.detail
\* C36: reset tokens are superseded.  Once a newer reset token exists for the
\* same user, whether it was redeemed or not, an earlier unredeemed token of
\* that user can no longer be redeemed: reset_password with it fails.
C36_EarlierTokenSuperseded ==
    \A i, j \in DOMAIN db.resets :
        (/\ i < j
         /\ db.resets[i].user_id = db.resets[j].user_id
         /\ ~db.resets[i].used)
            => \A pw \in StrongPasswords :
                  reset_password(db, now, db.resets[i].reset_token, pw, "none").resp.exc # "none"
\* C37: token lifetimes.  For every session row, issued at iat: its access
\* token is accepted only before iat + the access lifetime; while the row is
\* active, from iat + the access lifetime until iat + the refresh lifetime its
\* refresh token still rotates successfully; from iat + the refresh lifetime
\* on neither token is accepted.
C37_TokenLifetimes ==
    \A i \in DOMAIN db.sessions :
        LET s == db.sessions[i]
            iat == s.session_token.payload.iat
            access == verify_token(db, now, s.session_token, "access")
            refresh == refresh_token(db, now, s.refresh_token)
        IN /\ access.resp.exc = "none" => now < iat + access_token_expire_minutes
           /\ now >= iat + access_token_expire_minutes => Unauthenticated(access.resp)
           /\ (/\ s.is_active
               /\ now >= iat + access_token_expire_minutes
               /\ now < iat + refresh_token_expire_days)
                 => refresh.resp.exc = "none"
           /\ now >= iat + refresh_token_expire_days
                 => Unauthenticated(access.resp) /\ Unauthenticated(refresh.resp)
\* C38: deactivation is final.  In every state after deactivate_user(u)
\* succeeded, also when it ran between the steps of a refresh_token of u, u
\* has no active session, authenticate_user fails for u's email with every
\* password, and get_current_user and refresh_token fail for every token
\* issued to u.
C38_DeactivatedStaysOut ==
    \A k \in DOMAIN db.users :
        LET u == db.users[k]
        IN ~u.is_active
              => /\ ~HasActiveSession(db, u.id)
                 /\ \A password \in LoginPasswords :
                       authenticate_user(db, now, u.email, password, FALSE).resp.exc # "none"
                 /\ \A token \in IssuedAccess \cup IssuedRefresh :
                       token.payload.user_id = u.id
                          => /\ get_current_user(db, now, token).resp.exc # "none"
                             /\ refresh_token(db, now, token).resp.exc # "none"
\* C39: login identifiers are unambiguous.  In every state reached by
\* registrations, for every identifier at most one active user has it as
\* email or as username, so authenticate_user checks the password of one
\* determined user.
C39_IdentifierUnambiguous ==
    \A identifier \in ValidEmails \cup RegUsernames :
        \A i, j \in DOMAIN db.users :
            (/\ db.users[i].is_active
             /\ db.users[j].is_active
             /\ (db.users[i].email = identifier \/ db.users[i].username = identifier)
             /\ (db.users[j].email = identifier \/ db.users[j].username = identifier))
                => i = j
\* C40: seeded permissions resolve by name.  For every user, every seeded role
\* the user holds and every permission name the seed data lists for that
\* role, has_permission(user, name) is true.
C40_SeededNamesResolve ==
    \A k \in DOMAIN db.users :
        \A role_name \in db.users[k].roles \cap SeededRoles :
            \A name \in roles_data(role_name) :
                has_permission(db, db.users[k].id, name)
====
